---- MODULE Spec2Model ----
(***************************************************************************)
(* Change classification of linz/nz-facilities: a register of facilities   *)
(* is compared with an external source, record by record, keyed by the     *)
(* source id.  Three classifier variants are modelled:                     *)
(*   "facilities"  core/facilities.py  compare_facilities                  *)
(*   "schools"     core/schools.py     compare_schools                     *)
(*   "hpi"         core/hospitals.py   compare_facilities_to_hpi           *)
(* Geometries are points on a line, in whole metres; a Python None is the  *)
(* empty tuple and a present value v the one-element tuple <<v>>.          *)
(***************************************************************************)
EXTENDS Integers, Sequences, FiniteSets, TLC

VARIABLES variant, facilities, external_sources, check_attrs,
          pc, run, matched, new, last_actions

\* The parcel merge (core/polygonise.py): the global TITLES_GDF, the
\* arguments of find_points_in_titles_with_owners, and one call of
\* find_matching_titles per worker
VARIABLES TITLES_GDF, titles_gdf, input_gdf,
          use_standardised_names, distance_threshold, calls

cvars == <<variant, facilities, external_sources, check_attrs,
           pc, run, matched, new, last_actions>>

tvars == <<TITLES_GDF, titles_gdf, input_gdf,
           use_standardised_names, distance_threshold, calls>>

\* The pre-filter of the MOE schools (core/schools.py): the dict handed to
\* filter_moe_schools, its value before the call, and how the call ended
VARIABLES moe_schools, moe_input, filter_pc

\* The connection of the update_facilities plugin: the database as last
\* committed, and as the open transaction of plugin.dbconn sees it
VARIABLES db_committed, db_session

\* run_update_facilities_table: the rows selected from temp_facilities and
\* the fields and counters of the run
VARIABLES temp_facilities_table, update

\* update_temp_facilities: the features of the input layer and the locals
VARIABLES input_layer, upload

\* is_col_intlike: the Series and the returned value
VARIABLES intlike_col, intlike_result

xvars == <<moe_schools, moe_input, filter_pc, db_committed, db_session,
           temp_facilities_table, update, input_layer, upload,
           intlike_col, intlike_result>>

vars == <<cvars, tvars, xvars>>

(***************************************************************************)
(* Bounds                                                                  *)
(***************************************************************************)
MaxId == 2
MaxRuns == 2
MaxTitles == 3
MaxChain == 22
NWorkers == 2
MaxSchools == 3
MaxRows == 3
MaxVals == 2
MaxFeatures == 3

(***************************************************************************)
(* Program constants                                                       *)
(***************************************************************************)
DISTANCE_THRESHOLD == 350
TITLE_MERGE_MAX_ROUNDS == 20
TEEN_UNIT_DISTANCE_THRESHOLD == 100

IGNORE == "ignore"
ADD == "add"
REMOVE == "remove"
UPDATE_GEOM == "update_geom"
UPDATE_ATTR == "update_attr"
UPDATE_GEOM_ATTR == "update_geom_attr"

None == <<>>
Some(v) == <<v>>

FocusId == 1

(***************************************************************************)
(* Text helpers: Python str(), format(d, ".1f"), str.join, substring test  *)
(***************************************************************************)
PyStrOpt(v) == IF v = None THEN "None" ELSE ToString(v[1])

Fmt1f(d) == ToString(d) \o ".0"

RECURSIVE Join(_, _)
Join(parts, sep) ==
    IF parts = <<>> THEN ""
    ELSE IF Len(parts) = 1 THEN parts[1]
    ELSE parts[1] \o sep \o Join(Tail(parts), sep)

RECURSIVE ConcatAll(_)
ConcatAll(parts) == IF parts = <<>> THEN "" ELSE Head(parts) \o ConcatAll(Tail(parts))

Contains(s, sub) ==
    \E i \in 1..(Len(s) - Len(sub) + 1) : SubSeq(s, i, i + Len(sub) - 1) = sub

EndsWith(s, suffix) ==
    /\ Len(s) >= Len(suffix)
    /\ SubSeq(s, Len(s) - Len(suffix) + 1, Len(s)) = suffix

StartsWith(s, prefix) ==
    /\ Len(s) >= Len(prefix)
    /\ SubSeq(s, 1, Len(prefix)) = prefix

RECURSIVE SortedSeq(_)
SortedSeq(S) ==
    IF S = {} THEN <<>>
    ELSE LET m == CHOOSE x \in S : \A y \in S : x <= y
         IN <<m>> \o SortedSeq(S \ {m})

(***************************************************************************)
(* Attribute access (getattr) on Source records                            *)
(***************************************************************************)
SourceAttrNames == {"source_id", "source_name", "source_type", "geom", "occupancy",
                    "change_action", "change_description", "comments", "geometry_change"}

HasAttr(attr) == attr \in SourceAttrNames

GetAttr(rec, attr) ==
    CASE attr = "source_id" -> rec.source_id
      [] attr = "source_name" -> rec.source_name
      [] attr = "source_type" -> rec.source_type
      [] attr = "occupancy" -> rec.occupancy
      [] attr = "geom" -> rec.geom

\* str() of an attribute value as an f-string renders it
FmtAttr(attr, v) ==
    CASE attr = "source_id" -> ToString(v)
      [] attr = "occupancy" -> PyStrOpt(v)
      [] attr = "geom" -> IF v = None THEN "None" ELSE "POINT (" \o ToString(v[1]) \o " 0)"
      [] OTHER -> v

distance(a, b) == IF a >= b THEN a - b ELSE b - a

(***************************************************************************)
(* Comparison (core/facilities.py)                                         *)
(***************************************************************************)
\* A threshold test that lets the boundary distance through
is_geom_within_threshold_le(dist) ==
    IF dist = None THEN FALSE
    ELSE dist[1] <= DISTANCE_THRESHOLD

is_geom_within_threshold(dist) ==
    IF dist = None THEN FALSE
    ELSE dist[1] < DISTANCE_THRESHOLD

\* attrs is a sequence of <<name, register value, external value>>, in dict order
changed_attrs(attrs) == SelectSeq(attrs, LAMBDA t : t[2] # t[3])

(***************************************************************************)
(* Facility (core/facilities.py)                                           *)
(***************************************************************************)
\* A column mapping that forgets the display-name column
SqlClause_sourceonly(attr, newv) ==
    CASE attr = "source_name" -> "source_name='" \o FmtAttr(attr, newv) \o "', "
      [] attr = "source_type" -> "use_type='" \o FmtAttr(attr, newv) \o "', "
      [] attr = "occupancy" -> "estimated_occupancy='" \o FmtAttr(attr, newv) \o "', "
      [] OTHER -> ""

\* A column mapping that writes an unmapped attribute under its own name
SqlClause_passthrough(attr, newv) ==
    CASE attr = "source_name" ->
            "name='" \o FmtAttr(attr, newv) \o "',  source_name='" \o FmtAttr(attr, newv) \o "', "
      [] attr = "source_type" -> "use_type='" \o FmtAttr(attr, newv) \o "', "
      [] attr = "occupancy" -> "estimated_occupancy='" \o FmtAttr(attr, newv) \o "', "
      [] OTHER -> attr \o "='" \o FmtAttr(attr, newv) \o "', "

SqlClause(attr, newv) ==
    CASE attr = "source_name" ->
            "name='" \o FmtAttr(attr, newv) \o "',  source_name='" \o FmtAttr(attr, newv) \o "', "
      [] attr = "source_type" -> "use_type='" \o FmtAttr(attr, newv) \o "', "
      [] attr = "occupancy" -> "estimated_occupancy='" \o FmtAttr(attr, newv) \o "', "
      [] OTHER -> ""

SqlWhere(self) ==
    "WHERE facility_id=" \o ToString(self.facilities_id)
        \o " AND source_facility_id=" \o ToString(self.source_id) \o ";"

_generate_update_sql(self, changed) ==
    "UPDATE facilities.facilities SET "
        \o ConcatAll([i \in 1..Len(changed) |-> SqlClause(changed[i][1], changed[i][3])])
        \o "last_modified=CURRENT_DATE "
        \o SqlWhere(self)

AttrNote(t) ==
    t[1] \o ": \"" \o FmtAttr(t[1], t[2]) \o "\" -> \"" \o FmtAttr(t[1], t[3]) \o "\""

\* Lines 171-179: the geometry comparison of update_from_other
GeomChanged(dist) == dist[1] > DISTANCE_THRESHOLD

update_geom_part(self, other) ==
    LET dist == IF other.geom # None THEN Some(distance(self.geom[1], other.geom[1])) ELSE None
    IN IF dist = None
       THEN [self EXCEPT !.change_action = Some(UPDATE_GEOM),
                         !.change_description = Some("Geom: missing"),
                         !.geometry_change = Some("Missing"),
                         !.writes = @ + 1]
       ELSE IF GeomChanged(dist)
       THEN [self EXCEPT !.change_action = Some(UPDATE_GEOM),
                         !.change_description = Some("Geom: " \o Fmt1f(dist[1]) \o "m"),
                         !.geometry_change = Some("Modify"),
                         !.writes = @ + 1]
       ELSE self

\* An attribute comparison whose note replaces the geometry note
update_attr_part_overwrite(self, other, attrs) ==
    LET pairs == [i \in 1..Len(attrs) |->
                    <<attrs[i], GetAttr(self, attrs[i]), GetAttr(other, attrs[i])>>]
        changed == SelectSeq(pairs, LAMBDA t : t[2] # t[3])
        description == Join([i \in 1..Len(changed) |-> AttrNote(changed[i])], "; ")
        sql == _generate_update_sql(self, changed)
    IN IF changed = <<>> THEN self
       ELSE IF self.change_action = Some(UPDATE_GEOM)
       THEN [self EXCEPT !.change_action = Some(UPDATE_GEOM_ATTR),
                         !.change_description = Some("Attrs: " \o description),
                         !.sql = Some(sql),
                         !.geometry_change = Some("Modify"),
                         !.writes = @ + 1]
       ELSE [self EXCEPT !.change_action = Some(UPDATE_ATTR),
                         !.change_description = Some("Attrs: " \o description),
                         !.sql = Some(sql),
                         !.writes = @ + 1]

\* An attribute comparison that escalates from any earlier action
update_attr_part_sticky(self, other, attrs) ==
    LET pairs == [i \in 1..Len(attrs) |->
                    <<attrs[i], GetAttr(self, attrs[i]), GetAttr(other, attrs[i])>>]
        changed == SelectSeq(pairs, LAMBDA t : t[2] # t[3])
        description == Join([i \in 1..Len(changed) |-> AttrNote(changed[i])], "; ")
        sql == _generate_update_sql(self, changed)
    IN IF changed = <<>> THEN self
       ELSE IF self.change_action # None
       THEN [self EXCEPT !.change_action = Some(UPDATE_GEOM_ATTR),
                         !.change_description = Some(@[1] \o ", Attrs: " \o description),
                         !.sql = Some(sql),
                         !.geometry_change = Some("Modify"),
                         !.writes = @ + 1]
       ELSE [self EXCEPT !.change_action = Some(UPDATE_ATTR),
                         !.change_description = Some("Attrs: " \o description),
                         !.sql = Some(sql),
                         !.writes = @ + 1]

\* Lines 181-195: the attribute comparison of update_from_other
update_attr_part(self, other, attrs) ==
    LET pairs == [i \in 1..Len(attrs) |->
                    <<attrs[i], GetAttr(self, attrs[i]), GetAttr(other, attrs[i])>>]
        changed == SelectSeq(pairs, LAMBDA t : t[2] # t[3])
        description == Join([i \in 1..Len(changed) |-> AttrNote(changed[i])], "; ")
        sql == _generate_update_sql(self, changed)
    IN IF changed = <<>> THEN self
       ELSE IF self.change_action = Some(UPDATE_GEOM)
       THEN [self EXCEPT !.change_action = Some(UPDATE_GEOM_ATTR),
                         !.change_description = Some(@[1] \o ", Attrs: " \o description),
                         !.sql = Some(sql),
                         !.geometry_change = Some("Modify"),
                         !.writes = @ + 1]
       ELSE [self EXCEPT !.change_action = Some(UPDATE_ATTR),
                         !.change_description = Some("Attrs: " \o description),
                         !.sql = Some(sql),
                         !.writes = @ + 1]

\* The record as update_from_other leaves it, and whether the call raised
update_from_other(self, other, attrs) ==
    IF other.geom # None /\ self.geom = None
    THEN [rec |-> self, raised |-> TRUE]
    ELSE LET g == update_geom_part(self, other)
         IN IF \E i \in 1..Len(attrs) : ~HasAttr(attrs[i])
            THEN [rec |-> g, raised |-> TRUE]
            ELSE [rec |-> update_attr_part(g, other, attrs), raised |-> FALSE]

(***************************************************************************)
(* FacilitiesSchool (core/schools.py)                                      *)
(***************************************************************************)
\* Source.compare, which compare_schools calls: the Comparison of two
\* records, or an error for an attribute the records do not have
compare(self, other, attrs) ==
    [raised |-> \E i \in 1..Len(attrs) : ~HasAttr(attrs[i]),
     distance |-> IF self.geom = None \/ other.geom = None THEN None
                  ELSE Some(distance(self.geom[1], other.geom[1])),
     attrs |-> [i \in 1..Len(attrs) |->
                  IF HasAttr(attrs[i])
                  THEN <<attrs[i], GetAttr(self, attrs[i]), GetAttr(other, attrs[i])>>
                  ELSE <<attrs[i], None, None>>]]

SchoolSqlClause(attr, newv) ==
    CASE attr = "source_name" ->
            "  name='" \o FmtAttr(attr, newv) \o "',\n  source_name='" \o FmtAttr(attr, newv) \o "',\n"
      [] attr = "source_type" -> "  use_type='" \o FmtAttr(attr, newv) \o "',\n"
      [] attr = "occupancy" -> "  estimated_occupancy='" \o FmtAttr(attr, newv) \o "',\n"
      [] OTHER -> ""

generate_update_sql(self, comparison) ==
    IF comparison.attrs = <<>> THEN None
    ELSE LET changed == changed_attrs(comparison.attrs)
         IN Some("UPDATE facilities_lds.nz_facilities\nSET\n"
                 \o ConcatAll([i \in 1..Len(changed) |->
                                 SchoolSqlClause(changed[i][1], changed[i][3])])
                 \o "  last_modified=CURRENT_DATE\n"
                 \o SqlWhere(self))

\* An update that drops the SQL when it escalates
update_from_comparison_nosql(self, comparison) ==
    LET g == IF ~is_geom_within_threshold(comparison.distance)
             THEN [self EXCEPT !.change_action = Some(UPDATE_GEOM),
                               !.change_description =
                                   IF comparison.distance = None
                                   THEN Some("Geom: missing")
                                   ELSE Some("Geom: " \o Fmt1f(comparison.distance[1]) \o "m"),
                               !.writes = @ + 1]
             ELSE self
        changed == changed_attrs(comparison.attrs)
        description == Join([i \in 1..Len(changed) |-> changed[i][1]], ", ")
        sql == generate_update_sql(self, comparison)
    IN IF changed = <<>> THEN g
       ELSE IF g.change_action = Some(UPDATE_GEOM)
       THEN [g EXCEPT !.change_action = Some(UPDATE_GEOM_ATTR),
                      !.change_description = Some(@[1] \o ", Attrs: " \o description),
                      !.writes = @ + 1]
       ELSE [g EXCEPT !.change_action = Some(UPDATE_ATTR),
                      !.change_description = Some("Attrs: " \o description),
                      !.sql = sql,
                      !.writes = @ + 1]

update_from_comparison(self, comparison) ==
    LET g == IF ~is_geom_within_threshold(comparison.distance)
             THEN [self EXCEPT !.change_action = Some(UPDATE_GEOM),
                               !.change_description =
                                   IF comparison.distance = None
                                   THEN Some("Geom: missing")
                                   ELSE Some("Geom: " \o Fmt1f(comparison.distance[1]) \o "m"),
                               !.writes = @ + 1]
             ELSE self
        changed == changed_attrs(comparison.attrs)
        description == Join([i \in 1..Len(changed) |-> changed[i][1]], ", ")
        sql == generate_update_sql(self, comparison)
    IN IF changed = <<>> THEN g
       ELSE IF g.change_action = Some(UPDATE_GEOM)
       THEN [g EXCEPT !.change_action = Some(UPDATE_GEOM_ATTR),
                      !.change_description = Some(@[1] \o ", Attrs: " \o description),
                      !.sql = sql,
                      !.writes = @ + 1]
       ELSE [g EXCEPT !.change_action = Some(UPDATE_ATTR),
                      !.change_description = Some("Attrs: " \o description),
                      !.sql = sql,
                      !.writes = @ + 1]

\* Lines 329-330 of compare_schools: compare, then update_from_comparison
update_school(self, other, attrs) ==
    LET comparison == compare(self, other, attrs)
    IN IF comparison.raised THEN [rec |-> self, raised |-> TRUE]
       ELSE [rec |-> update_from_comparison(self, comparison), raised |-> FALSE]

(***************************************************************************)
(* compare_facilities / compare_schools: the two loops                     *)
(***************************************************************************)
\* A match test that forgets the ignore flag
IsMatch_noignore(ext, id) == id \in DOMAIN ext

\* Line 229 (328): a truthy match that is not flagged ignore
IsMatch(ext, id) == id \in DOMAIN ext /\ ext[id].change_action # Some(IGNORE)

\* An else branch that leaves the record as it is
mark_remove_skipped(self) == self

\* Line 232 (331): the else branch of the first loop
mark_remove(self) == [self EXCEPT !.change_action = Some(REMOVE), !.writes = @ + 1]

\* An iteration that marks the record for removal before it looks for a match
visit_facility_removefirst(v, facs, ext, attrs, id) ==
    IF IsMatch(ext, id)
    THEN IF v = "schools" THEN update_school(mark_remove(facs[id]), ext[id], attrs)
         ELSE update_from_other(mark_remove(facs[id]), ext[id], attrs)
    ELSE [rec |-> mark_remove(facs[id]), raised |-> FALSE]

\* One iteration of the first loop
visit_facility(v, facs, ext, attrs, id) ==
    IF IsMatch(ext, id)
    THEN IF v = "schools" THEN update_school(facs[id], ext[id], attrs)
         ELSE update_from_other(facs[id], ext[id], attrs)
    ELSE [rec |-> mark_remove(facs[id]), raised |-> FALSE]

\* The ids whose iteration raises; the loop stops at the first of them
RaisingIds(v, facs, ext, attrs) ==
    {id \in DOMAIN facs : visit_facility(v, facs, ext, attrs, id).raised}

Reached(R, id) == R = {} \/ \A r \in R : id <= r

first_loop(v, facs, ext, attrs) ==
    LET R == RaisingIds(v, facs, ext, attrs)
    IN [id \in DOMAIN facs |->
          IF Reached(R, id) THEN visit_facility(v, facs, ext, attrs, id).rec ELSE facs[id]]

\* A second loop that forgets to look the id up in the register
visit_external_nolookup(facs, ext, id) ==
    IF ext[id].change_action # Some(IGNORE)
    THEN [ext[id] EXCEPT !.change_action = Some(ADD), !.writes = @ + 1]
    ELSE ext[id]

\* One iteration of the second loop
visit_external(facs, ext, id) ==
    IF ext[id].change_action # Some(IGNORE) /\ id \notin DOMAIN facs
    THEN [ext[id] EXCEPT !.change_action = Some(ADD), !.writes = @ + 1]
    ELSE ext[id]

second_loop(facs, ext) == [id \in DOMAIN ext |-> visit_external(facs, ext, id)]

(***************************************************************************)
(* compare_facilities_to_hpi (core/hospitals.py)                           *)
(***************************************************************************)
\* Facilities column, HPI column, in dict order
FACILITIES_HPI_COMPARISON_COLUMNS ==
    <<<<"name", "name">>, <<"use_subtype", "type">>, <<"estimated_occupancy", "occupancy">>>>

\* A row of facilities_dict / hpi_dict read by column name
FacCol(row, col) ==
    CASE col = "name" -> row.facilities_name
      [] col = "use_subtype" -> row.facilities_subtype
      [] col = "estimated_occupancy" -> row.occupancy

HpiColumn(row, col) ==
    CASE col = "name" -> row.source_name
      [] col = "type" -> row.source_type
      [] col = "occupancy" -> row.occupancy

\* pd.isna of a cell: only the occupancy columns hold missing values
IsNa(col, v) == col \in {"estimated_occupancy", "occupancy"} /\ v = None

FmtCol(col, v) == IF col \in {"estimated_occupancy", "occupancy"} THEN PyStrOpt(v) ELSE v

\* Lines 493-494: both columns start as None
hpi_reset(facs) ==
    [id \in DOMAIN facs |->
        [facs[id] EXCEPT !.change_action = None, !.change_description = None]]

\* Lines 517-527
HpiGeomChanged(dist) == dist[1] > DISTANCE_THRESHOLD

hpi_geom_part(row, hpi) ==
    LET dist == IF hpi.geom # None THEN Some(distance(row.geom[1], hpi.geom[1])) ELSE None
    IN IF dist = None
       THEN [row EXCEPT !.change_action = Some(UPDATE_GEOM),
                        !.change_description = Some("Geom: missing"),
                        !.writes = @ + 1]
       ELSE IF HpiGeomChanged(dist)
       THEN [row EXCEPT !.change_action = Some(UPDATE_GEOM),
                        !.change_description = Some("Geom: " \o Fmt1f(dist[1]) \o "m"),
                        !.writes = @ + 1]
       ELSE row

\* Line 534
HpiAttrChanged(col, hpi_col, fv, hv) == IsNa(col, fv) \/ IsNa(hpi_col, hv) \/ fv # hv

\* Lines 530-546
hpi_attr_part(row, hpi) ==
    LET cols == FACILITIES_HPI_COMPARISON_COLUMNS
        pairs == [i \in 1..Len(cols) |->
                    <<cols[i][1], FacCol(row, cols[i][1]), HpiColumn(hpi, cols[i][2]), cols[i][2]>>]
        attr_changes == SelectSeq(pairs, LAMBDA t : HpiAttrChanged(t[1], t[4], t[2], t[3]))
        copied == [i \in 1..Len(attr_changes) |->
                     <<"hpi_" \o attr_changes[i][4], attr_changes[i][3]>>]
        description ==
            Join([i \in 1..Len(attr_changes) |->
                    attr_changes[i][1] \o ": \"" \o FmtCol(attr_changes[i][1], attr_changes[i][2])
                        \o "\" -> \"" \o FmtCol(attr_changes[i][1], attr_changes[i][3]) \o "\""],
                 ";  ")
        r == [row EXCEPT !.hpi_cols = copied]
    IN IF attr_changes = <<>> THEN r
       ELSE IF r.change_action = Some(UPDATE_GEOM)
       THEN [r EXCEPT !.change_action = Some(UPDATE_GEOM_ATTR),
                      !.change_description = Some(@[1] \o ";  " \o description),
                      !.writes = @ + 1]
       ELSE [r EXCEPT !.change_action = Some(UPDATE_ATTR),
                      !.change_description = Some(description),
                      !.writes = @ + 1]

\* One iteration of the loop over the HPI features that match a facility
hpi_visit(row, hpi) ==
    IF hpi.geom # None /\ row.geom = None
    THEN [rec |-> row, raised |-> TRUE]
    ELSE [rec |-> hpi_attr_part(hpi_geom_part(row, hpi), hpi), raised |-> FALSE]

HpiRaisingIds(facs, hpi) ==
    {id \in DOMAIN hpi \cap DOMAIN facs : hpi_visit(facs[id], hpi[id]).raised}

\* Lines 503-552: both loops, when no iteration raises
hpi_loops(facs, hpi) ==
    [id \in DOMAIN facs |->
        IF id \in DOMAIN hpi THEN hpi_visit(facs[id], hpi[id]).rec
        ELSE mark_remove(facs[id])]

(***************************************************************************)
(* Parcel merge (core/polygonise.py).  A geometry is a set of whole-metre  *)
(* positions on a line; a title with several parts has gaps.  A row of     *)
(* TITLES_GDF is one (title, owner) pair: a title with several owners has  *)
(* several rows with the same id and geometry.  pd.NA is None.             *)
(***************************************************************************)
MinOf(S) == CHOOSE x \in S : \A y \in S : x <= y

MaxOf(S) == CHOOSE x \in S : \A y \in S : y <= x

\* shapely distance between two geometries
geometry_distance(g, h) ==
    MinOf({IF a >= b THEN a - b ELSE b - a : <<a, b>> \in g \X h})

\* GeoSeries.intersects with a point
intersects(g, p) == p \in g

\* sindex.query: the positions of the rows whose bounding box holds the point
sindex_query(gdf, p) ==
    {i \in 1..Len(gdf) : MinOf(gdf[i].geometry) <= p /\ p <= MaxOf(gdf[i].geometry)}

\* shapely.union_all
union_all(geoms) == UNION geoms

\* Lines 239-242: the owner column a call reads
owner_column(use_std) ==
    IF use_std THEN "standardised_owner_name" ELSE "owner_name"

OwnerOf(row, col) ==
    IF col = "standardised_owner_name" THEN row.standardised_owner_name
    ELSE row.owner_name

\* Python sorted() on the owner names: code point order
NameOrder ==
    <<"Beta Limited", "Beta Ltd", "Zed Co", "alpha trust", "beta limited", "zed company">>

sorted(names) == SelectSeq(NameOrder, LAMBDA n : n \in names)

\* Line 243
none_return_value == [geometry |-> None, owner_names |-> None, owner_count |-> None]

IdleCall ==
    [pc |-> "idle", all_owners |-> {}, geom |-> {}, rounds |-> 0, merged_ids |-> {},
     matching_ids |-> {}, titles_with_same_owner |-> {}, absorbed |-> <<>>,
     result |-> None]

\* A start whose candidate titles are not filtered by owner
find_matching_titles_start_anyowner(gdf, row_geometry, use_std) ==
    IF gdf = None THEN [IdleCall EXCEPT !.pc = "raised"]
    ELSE IF row_geometry = None
    THEN [IdleCall EXCEPT !.pc = "returned", !.result = Some(none_return_value)]
    ELSE LET T == gdf[1]
             col == owner_column(use_std)
             rough_matching_titles == sindex_query(T, row_geometry[1])
             matching_titles ==
                 {i \in rough_matching_titles : intersects(T[i].geometry, row_geometry[1])}
             all_owners == {OwnerOf(T[i], col) : i \in matching_titles} \ {None}
             ids == {T[i].id : i \in matching_titles}
         IN IF rough_matching_titles = {} \/ matching_titles = {}
            THEN [IdleCall EXCEPT !.pc = "returned", !.result = Some(none_return_value)]
            ELSE [pc |-> "loop",
                  all_owners |-> {o[1] : o \in all_owners},
                  geom |-> union_all({T[i].geometry : i \in matching_titles}),
                  rounds |-> 1,
                  merged_ids |-> {},
                  matching_ids |-> ids,
                  titles_with_same_owner |->
                      {T[i] : i \in {j \in 1..Len(T) :
                          T[j].id \notin ids}},
                  absorbed |-> <<>>,
                  result |-> None]

\* A start without the early return after the refinement to true intersections
find_matching_titles_start_norefine(gdf, row_geometry, use_std) ==
    IF gdf = None THEN [IdleCall EXCEPT !.pc = "raised"]
    ELSE IF row_geometry = None
    THEN [IdleCall EXCEPT !.pc = "returned", !.result = Some(none_return_value)]
    ELSE LET T == gdf[1]
             col == owner_column(use_std)
             rough_matching_titles == sindex_query(T, row_geometry[1])
             matching_titles ==
                 {i \in rough_matching_titles : intersects(T[i].geometry, row_geometry[1])}
             all_owners == {OwnerOf(T[i], col) : i \in matching_titles} \ {None}
             ids == {T[i].id : i \in matching_titles}
         IN IF rough_matching_titles = {}
            THEN [IdleCall EXCEPT !.pc = "returned", !.result = Some(none_return_value)]
            ELSE [pc |-> "loop",
                  all_owners |-> {o[1] : o \in all_owners},
                  geom |-> union_all({T[i].geometry : i \in matching_titles}),
                  rounds |-> 1,
                  merged_ids |-> {},
                  matching_ids |-> ids,
                  titles_with_same_owner |->
                      {T[i] : i \in {j \in 1..Len(T) :
                          /\ OwnerOf(T[j], col) \in all_owners
                          /\ T[j].id \notin ids}},
                  absorbed |-> <<>>,
                  result |-> None]

\* A start that returns early for a null geometry before it looks at TITLES_GDF
find_matching_titles_start_nullfirst(gdf, row_geometry, use_std) ==
    IF row_geometry = None
    THEN [IdleCall EXCEPT !.pc = "returned", !.result = Some(none_return_value)]
    ELSE IF gdf = None THEN [IdleCall EXCEPT !.pc = "raised"]
    ELSE LET T == gdf[1]
             col == owner_column(use_std)
             rough_matching_titles == sindex_query(T, row_geometry[1])
             matching_titles ==
                 {i \in rough_matching_titles : intersects(T[i].geometry, row_geometry[1])}
             all_owners == {OwnerOf(T[i], col) : i \in matching_titles} \ {None}
             ids == {T[i].id : i \in matching_titles}
         IN IF rough_matching_titles = {} \/ matching_titles = {}
            THEN [IdleCall EXCEPT !.pc = "returned", !.result = Some(none_return_value)]
            ELSE [pc |-> "loop",
                  all_owners |-> {o[1] : o \in all_owners},
                  geom |-> union_all({T[i].geometry : i \in matching_titles}),
                  rounds |-> 1,
                  merged_ids |-> {},
                  matching_ids |-> ids,
                  titles_with_same_owner |->
                      {T[i] : i \in {j \in 1..Len(T) :
                          /\ OwnerOf(T[j], col) \in all_owners
                          /\ T[j].id \notin ids}},
                  absorbed |-> <<>>,
                  result |-> None]

\* Lines 236-273 of find_matching_titles: the checks, the intersecting
\* titles, the owner set, the seed geometry and the candidate titles
find_matching_titles_start(gdf, row_geometry, use_std) ==
    IF gdf = None THEN [IdleCall EXCEPT !.pc = "raised"]
    ELSE IF row_geometry = None
    THEN [IdleCall EXCEPT !.pc = "returned", !.result = Some(none_return_value)]
    ELSE LET T == gdf[1]
             col == owner_column(use_std)
             rough_matching_titles == sindex_query(T, row_geometry[1])
             matching_titles ==
                 {i \in rough_matching_titles : intersects(T[i].geometry, row_geometry[1])}
             all_owners == {OwnerOf(T[i], col) : i \in matching_titles} \ {None}
             ids == {T[i].id : i \in matching_titles}
         IN IF rough_matching_titles = {} \/ matching_titles = {}
            THEN [IdleCall EXCEPT !.pc = "returned", !.result = Some(none_return_value)]
            ELSE [pc |-> "loop",
                  all_owners |-> {o[1] : o \in all_owners},
                  geom |-> union_all({T[i].geometry : i \in matching_titles}),
                  rounds |-> 1,
                  merged_ids |-> {},
                  matching_ids |-> ids,
                  titles_with_same_owner |->
                      {T[i] : i \in {j \in 1..Len(T) :
                          /\ OwnerOf(T[j], col) \in all_owners
                          /\ T[j].id \notin ids}},
                  absorbed |-> <<>>,
                  result |-> None]

\* Lines 278-281: the candidates not yet merged and near enough
nearby_titles_with_same_owner(c, threshold) ==
    {r \in c.titles_with_same_owner :
        /\ r.id \notin c.merged_ids
        /\ geometry_distance(r.geometry, c.geom) <= threshold}

\* An iteration that stops only when no candidate is near
find_matching_titles_round_unbounded(c, threshold) ==
    LET nearby == nearby_titles_with_same_owner(c, threshold)
        marked == [c EXCEPT !.merged_ids = @ \cup {r.id : r \in nearby}]
    IN IF nearby = {}
       THEN [marked EXCEPT
                !.pc = "returned",
                !.result = Some([geometry |-> Some(c.geom),
                                 owner_names |-> Some(Join(sorted(c.all_owners), ", ")),
                                 owner_count |-> Some(Cardinality(c.all_owners))])]
       ELSE [marked EXCEPT
                !.geom = union_all({c.geom} \cup {r.geometry : r \in nearby}),
                !.rounds = @ + 1,
                !.absorbed = Append(@, {r.id : r \in nearby})]

\* An iteration whose return counts the intersecting titles, not the owners
find_matching_titles_round_titlecount(c, threshold) ==
    LET nearby == nearby_titles_with_same_owner(c, threshold)
        marked == [c EXCEPT !.merged_ids = @ \cup {r.id : r \in nearby}]
    IN IF nearby = {} \/ c.rounds >= TITLE_MERGE_MAX_ROUNDS
       THEN [marked EXCEPT
                !.pc = "returned",
                !.result = Some([geometry |-> Some(c.geom),
                                 owner_names |-> Some(Join(sorted(c.all_owners), ", ")),
                                 owner_count |-> Some(Cardinality(c.matching_ids))])]
       ELSE [marked EXCEPT
                !.geom = union_all({c.geom} \cup {r.geometry : r \in nearby}),
                !.rounds = @ + 1,
                !.absorbed = Append(@, {r.id : r \in nearby})]

\* Lines 275-293: one iteration of the loop, with the return when it breaks
find_matching_titles_round(c, threshold) ==
    LET nearby == nearby_titles_with_same_owner(c, threshold)
        marked == [c EXCEPT !.merged_ids = @ \cup {r.id : r \in nearby}]
    IN IF nearby = {} \/ c.rounds >= TITLE_MERGE_MAX_ROUNDS
       THEN [marked EXCEPT
                !.pc = "returned",
                !.result = Some([geometry |-> Some(c.geom),
                                 owner_names |-> Some(Join(sorted(c.all_owners), ", ")),
                                 owner_count |-> Some(Cardinality(c.all_owners))])]
       ELSE [marked EXCEPT
                !.geom = union_all({c.geom} \cup {r.geometry : r \in nearby}),
                !.rounds = @ + 1,
                !.absorbed = Append(@, {r.id : r \in nearby})]

\* The whole call, run alone to its return
RECURSIVE run_to_return(_, _)
run_to_return(c, threshold) ==
    IF c.pc = "loop" THEN run_to_return(find_matching_titles_round(c, threshold), threshold)
    ELSE c

find_matching_titles(gdf, row_geometry, use_std, threshold) ==
    run_to_return(find_matching_titles_start(gdf, row_geometry, use_std), threshold)

(***************************************************************************)
(* Inputs                                                                  *)
(***************************************************************************)
RegRec(id, g, occ) ==
    [source_id |-> id, source_name |-> "Old Name", source_type |-> "Primary",
     occupancy |-> occ, geom |-> g, facilities_id |-> 100 + id,
     facilities_name |-> "Old Name", facilities_subtype |-> "Primary",
     change_action |-> None, change_description |-> None, sql |-> None,
     geometry_change |-> None, hpi_cols |-> <<>>, writes |-> 0]

ExtRec(id, g, name, type, occ, ca) ==
    [source_id |-> id, source_name |-> name, source_type |-> type,
     occupancy |-> occ, geom |-> g, change_action |-> ca,
     change_description |-> None, writes |-> 0]

\* The record with id FocusId takes every combination of values; the other
\* records take a few
RegChoices(id) ==
    IF id = FocusId
    THEN {RegRec(id, g, occ) : g \in {None, Some(0)}, occ \in {None, Some(10)}}
    ELSE {RegRec(id, Some(0), Some(10))}

ExtChoices(id) ==
    IF id = FocusId
    THEN UNION {{ExtRec(id, g, name, type, occ, ca) :
                    g \in {None, Some(349), Some(350), Some(351)},
                    name \in {"Old Name", "New Name"}} :
                 type \in {"Primary", "Secondary"},
                 occ \in {None, Some(10)},
                 ca \in {None, Some(IGNORE)}}
    ELSE {ExtRec(id, Some(351), "New Name", "Primary", Some(10), None),
          ExtRec(id, Some(0), "Old Name", "Primary", Some(10), Some(IGNORE))}

\* Iteration orders of the comparison set the caller passes
CheckAttrChoices ==
    {<<"source_name">>,
     <<"source_id", "source_name", "source_type">>,
     <<"source_type", "occupancy", "geom", "source_name">>,
     <<"source_name", "address">>}

\* A collection with one more record
Extend(coll, id, rec) ==
    [x \in DOMAIN coll \cup {id} |-> IF x = id THEN rec ELSE coll[x]]

\* The collections over every subset of the ids 1..n
RECURSIVE RegCollectionsUpTo(_)
RegCollectionsUpTo(n) ==
    IF n = 0 THEN {<<>>}
    ELSE LET prev == RegCollectionsUpTo(n - 1)
         IN prev \cup {Extend(f, n, r) : f \in prev, r \in RegChoices(n)}

RECURSIVE ExtCollectionsUpTo(_)
ExtCollectionsUpTo(n) ==
    IF n = 0 THEN {<<>>}
    ELSE LET prev == ExtCollectionsUpTo(n - 1)
         IN prev \cup {Extend(f, n, r) : f \in prev, r \in ExtChoices(n)}

ActionsOf(coll) == [id \in DOMAIN coll |-> coll[id].change_action]

\* Owners as the titles layer carries them: the raw and the standardised name
BetaLtd == [owner_name |-> Some("Beta Ltd"), standardised_owner_name |-> Some("beta limited")]

BetaLimited ==
    [owner_name |-> Some("Beta Limited"), standardised_owner_name |-> Some("beta limited")]

ZedCo == [owner_name |-> Some("Zed Co"), standardised_owner_name |-> Some("zed company")]

AlphaTrust ==
    [owner_name |-> Some("alpha trust"), standardised_owner_name |-> Some("alpha trust")]

NoOwner == [owner_name |-> None, standardised_owner_name |-> None]

\* The rows of one title: one per owner
TitleRows(id, g, owners) ==
    [i \in 1..Len(owners) |->
        [id |-> id, geometry |-> g,
         owner_name |-> owners[i].owner_name,
         standardised_owner_name |-> owners[i].standardised_owner_name]]

GeomChoices(id) ==
    CASE id = 1 -> {{0, 1}}
      [] id = 2 -> {{3}, {4}, {1, 2}}
      [] id = 3 -> {{5}, {6}, {-2, 2}}
      [] OTHER -> {{2 * id - 1}}

OwnerChoices(id) ==
    CASE id = 1 -> {<<NoOwner>>, <<BetaLtd>>, <<BetaLtd, AlphaTrust>>, <<BetaLtd, BetaLimited>>}
      [] id = 2 -> {<<BetaLtd>>, <<BetaLimited>>, <<ZedCo>>, <<NoOwner>>}
      [] id = 3 -> {<<BetaLtd>>, <<ZedCo>>, <<AlphaTrust, ZedCo>>}
      [] OTHER -> {<<BetaLtd>>}

\* The titles layers with exactly n titles
RECURSIVE TitleLayers(_)
TitleLayers(n) ==
    IF n = 0 THEN {<<>>}
    ELSE {L \o TitleRows(n, g, o) :
            <<L, g, o>> \in TitleLayers(n - 1) \X GeomChoices(n) \X OwnerChoices(n)}

TitlesChoices ==
    UNION {TitleLayers(n) : n \in 0..MaxTitles}
        \* and the chains of n titles of one owner, each two metres from
        \* the next
        \cup {[i \in 1..n |-> TitleRows(i, {2 * (i - 1)}, <<BetaLtd>>)[1]] :
                 n \in (MaxChain - 2)..MaxChain}

Workers == 1..NWorkers

PointChoices(w) ==
    CASE w = 1 -> {None, Some(0), Some(1), Some(-1), Some(9)}
      [] w = 2 -> {None, Some(1)}
      [] OTHER -> {Some(0)}

RECURSIVE InputsUpTo(_)
InputsUpTo(n) ==
    IF n = 0 THEN {<<>>}
    ELSE {Append(I, g) : <<I, g>> \in InputsUpTo(n - 1) \X PointChoices(n)}

\* The machines other than those named in running, before they are called
ExtraIdle(running) ==
    /\ "filter" \in running
          \/ (moe_schools = <<>> /\ moe_input = <<>> /\ filter_pc = "idle")
    /\ "db" \in running
          \/ (db_committed = <<>> /\ db_session = <<>>)
    /\ "apply" \in running
          \/ (temp_facilities_table = <<>> /\ update = <<>>)
    /\ "upload" \in running
          \/ (input_layer = <<>> /\ upload = <<>>)
    /\ "intlike" \in running
          \/ (intlike_col = <<>> /\ intlike_result = None)

TitlesIdle ==
    /\ TITLES_GDF = None
    /\ titles_gdf = <<>>
    /\ input_gdf = <<>>
    /\ use_standardised_names = FALSE
    /\ distance_threshold = 0
    /\ calls = <<>>

ClassifierIdle ==
    /\ variant = "none"
    /\ facilities = <<>>
    /\ external_sources = <<>>
    /\ check_attrs = <<>>
    /\ pc = "idle"
    /\ run = 0
    /\ matched = {}
    /\ new = {}
    /\ last_actions = None

Init ==
    /\ TitlesIdle
    /\ ExtraIdle({})
    /\ facilities \in RegCollectionsUpTo(MaxId)
    /\ external_sources \in ExtCollectionsUpTo(MaxId)
    /\ \/ /\ variant \in {"facilities", "schools"}
          /\ check_attrs \in CheckAttrChoices
       \/ /\ variant = "hpi"
          /\ check_attrs = <<>>
          \* the HPI rows carry no change_action: load_hpi_excel drops
          \* the ignored ids
          /\ \A id \in DOMAIN external_sources :
                external_sources[id].change_action = None
    /\ pc = "ready"
    /\ run = 1
    /\ matched = {}
    /\ new = {}
    /\ last_actions = None

(***************************************************************************)
(* Actions                                                                 *)
(***************************************************************************)
ComparePass(v) ==
    /\ pc = "ready"
    /\ variant = v
    /\ LET R == RaisingIds(v, facilities, external_sources, check_attrs)
       IN /\ facilities' = first_loop(v, facilities, external_sources, check_attrs)
          /\ matched' = {id \in DOMAIN facilities :
                            IsMatch(external_sources, id) /\ Reached(R, id)}
          /\ IF R = {}
             THEN /\ external_sources' = second_loop(facilities, external_sources)
                  /\ pc' = "done"
             ELSE /\ external_sources' = external_sources
                  /\ pc' = "raised"
    /\ UNCHANGED <<variant, check_attrs, run, new, last_actions>>
    /\ UNCHANGED <<tvars, xvars>>

compare_facilities == ComparePass("facilities")

compare_schools == ComparePass("schools")

compare_facilities_to_hpi ==
    /\ pc = "ready"
    /\ variant = "hpi"
    /\ LET facs == hpi_reset(facilities)
           R == HpiRaisingIds(facs, external_sources)
       IN /\ new' = {id \in DOMAIN external_sources : id \notin DOMAIN facs /\ Reached(R, id)}
          /\ matched' = {id \in DOMAIN external_sources : id \in DOMAIN facs /\ Reached(R, id)}
          /\ IF R = {}
             THEN /\ facilities' = hpi_loops(facs, external_sources)
                  /\ pc' = "done"
             ELSE /\ facilities' = facs
                  /\ pc' = "raised"
    /\ UNCHANGED <<variant, external_sources, check_attrs, run, last_actions>>
    /\ UNCHANGED <<tvars, xvars>>

\* The caller runs the classifier again on the collections as they are
Rerun ==
    /\ pc = "done"
    /\ run < MaxRuns
    /\ pc' = "ready"
    /\ run' = run + 1
    /\ last_actions' = Some(<<ActionsOf(facilities), ActionsOf(external_sources)>>)
    /\ facilities' = [id \in DOMAIN facilities |-> [facilities[id] EXCEPT !.writes = 0]]
    /\ external_sources' =
          [id \in DOMAIN external_sources |-> [external_sources[id] EXCEPT !.writes = 0]]
    /\ matched' = {}
    /\ new' = {}
    /\ UNCHANGED <<variant, check_attrs>>
    /\ UNCHANGED <<tvars, xvars>>

Next ==
    \/ compare_facilities
    \/ compare_schools
    \/ compare_facilities_to_hpi
    \/ Rerun

Spec == Init /\ [][Next]_vars

(***************************************************************************)
(* The parcel merge as a state machine                                     *)
(***************************************************************************)
TitlesInit ==
    /\ ClassifierIdle
    /\ ExtraIdle({})
    /\ TITLES_GDF = None
    /\ titles_gdf \in TitlesChoices
    /\ input_gdf \in InputsUpTo(NWorkers)
    /\ use_standardised_names \in BOOLEAN
    /\ distance_threshold \in {2, 3}
    /\ calls = [w \in Workers |-> IdleCall]

\* Lines 316-318: the titles layer becomes the global
find_points_in_titles_with_owners ==
    /\ TITLES_GDF = None
    /\ TITLES_GDF' = Some(titles_gdf)
    /\ UNCHANGED <<titles_gdf, input_gdf, use_standardised_names, distance_threshold, calls>>
    /\ UNCHANGED <<cvars, xvars>>

\* A worker applies find_matching_titles to its row, up to the loop
CallStart(w) ==
    /\ calls[w].pc = "idle"
    /\ calls' = [calls EXCEPT ![w] =
                    find_matching_titles_start(TITLES_GDF, input_gdf[w], use_standardised_names)]
    /\ UNCHANGED <<TITLES_GDF, titles_gdf, input_gdf, use_standardised_names, distance_threshold>>
    /\ UNCHANGED <<cvars, xvars>>

\* An iteration that also drops the titles it has merged from the global
CallRound_consuming(w) ==
    /\ calls[w].pc = "loop"
    /\ calls' = [calls EXCEPT ![w] = find_matching_titles_round(calls[w], distance_threshold)]
    /\ TITLES_GDF' =
          Some(SelectSeq(TITLES_GDF[1],
                         LAMBDA r : r.id \notin
                             find_matching_titles_round(calls[w], distance_threshold).merged_ids))
    /\ UNCHANGED <<titles_gdf, input_gdf, use_standardised_names, distance_threshold>>
    /\ UNCHANGED <<cvars, xvars>>

\* A worker runs one iteration of the loop
CallRound(w) ==
    /\ calls[w].pc = "loop"
    /\ calls' = [calls EXCEPT ![w] = find_matching_titles_round(calls[w], distance_threshold)]
    /\ UNCHANGED <<TITLES_GDF, titles_gdf, input_gdf, use_standardised_names, distance_threshold>>
    /\ UNCHANGED <<cvars, xvars>>

TitlesNext ==
    \/ find_points_in_titles_with_owners
    \/ \E w \in Workers : CallStart(w)
    \/ \E w \in Workers : CallRound(w)

TitlesSpec == TitlesInit /\ [][TitlesNext]_vars

(***************************************************************************)
(* filter_moe_schools (core/schools.py).  The dict is keyed by source_id    *)
(* and iterated in insertion order; a geometry is a point on a line.        *)
(***************************************************************************)
\* str.lower()
RECURSIVE lower(_)
lower(str) ==
    IF Len(str) = 0 THEN ""
    ELSE LET UpperCase == "ABCDEFGHIJKLMNOPQRSTUVWXYZ"
             LowerCase == "abcdefghijklmnopqrstuvwxyz"
             c == SubSeq(str, 1, 1)
             K == {i \in 1..Len(UpperCase) : SubSeq(UpperCase, i, i) = c}
             d == IF K = {} THEN c
                  ELSE LET k == CHOOSE i \in K : TRUE IN SubSeq(LowerCase, k, k)
         IN d \o lower(SubSeq(str, 2, Len(str)))

\* Lines 302-304: the MultiPoint of the other records that have a geometry
other_schools(schools, id_) ==
    {schools[j].geom[1] :
        j \in {k \in DOMAIN schools :
                  schools[k].source_id # id_ /\ schools[k].geom # None}}

\* Lines 298-299: the name test
filter_name(school) ==
    IF Contains(lower(school.source_name), "proposed")
    THEN [school EXCEPT !.change_action = Some(IGNORE)]
    ELSE school

\* The distance test with the threshold itself counted as close
filter_distance_le(schools, id_, school) ==
    IF /\ school.source_type = "Teen Parent Unit"
       /\ school.geom # None
       /\ other_schools(schools, id_) # {}
       /\ MinOf({distance(school.geom[1], g) : g \in other_schools(schools, id_)})
             <= TEEN_UNIT_DISTANCE_THRESHOLD
    THEN [school EXCEPT !.change_action = Some(IGNORE)]
    ELSE school

\* Lines 301-311: the distance test of a Teen Parent Unit, when it returns
filter_distance(schools, id_, school) ==
    IF /\ school.source_type = "Teen Parent Unit"
       /\ school.geom # None
       /\ other_schools(schools, id_) # {}
       /\ MinOf({distance(school.geom[1], g) : g \in other_schools(schools, id_)})
             < TEEN_UNIT_DISTANCE_THRESHOLD
    THEN [school EXCEPT !.change_action = Some(IGNORE)]
    ELSE school

\* The ids at which the loop raises: nearest_points (line 308) raises
\* ValueError on the empty MultiPoint of a Teen Parent Unit with a geometry
\* and no other record with one
FilterRaisingIds(schools) ==
    {id \in DOMAIN schools :
        /\ schools[id].source_type = "Teen Parent Unit"
        /\ schools[id].geom # None
        /\ other_schools(schools, id) = {}}

\* Lines 297-311: the loop, which stops at the first id that raises
filter_loop(schools) ==
    LET R == FilterRaisingIds(schools)
    IN [id \in DOMAIN schools |->
           IF \A r \in R : id < r
           THEN filter_distance(schools, id, filter_name(schools[id]))
           ELSE IF id = MinOf(R) THEN filter_name(schools[id])
           ELSE schools[id]]

\* The MOE collections of n records: Org_Name, Org_Type and the point of
\* each record (MOESchool.from_api_response)
RECURSIVE MOECollections(_)
MOECollections(n) ==
    IF n = 0 THEN {<<>>}
    ELSE LET SchoolNames ==
                 CASE n = 1 -> {"Kowhai School", "Proposed Kura", "new PROPOSED unit"}
                   [] n = 2 -> {"Rata College", "proposed school"}
                   [] OTHER -> {"Totara School"}
             SchoolTypes ==
                 IF n <= 3 THEN {"Teen Parent Unit", "Full Primary"} ELSE {"Full Primary"}
             SchoolGeoms ==
                 CASE n = 1 -> {None, Some(0), Some(200)}
                   [] n = 2 -> {None, Some(99), Some(100), Some(101)}
                   [] n = 3 -> {None, Some(0), Some(300)}
                   [] OTHER -> {None, Some(500)}
         IN {Append(c, [source_id |-> n, source_name |-> nm, source_type |-> ty,
                        geom |-> g, change_action |-> None]) :
                <<c, nm, ty, g>> \in MOECollections(n - 1) \X SchoolNames
                                      \X SchoolTypes \X SchoolGeoms}

FilterInit ==
    /\ ClassifierIdle
    /\ TitlesIdle
    /\ ExtraIdle({"filter"})
    /\ moe_schools \in UNION {MOECollections(n) : n \in 0..MaxSchools}
    /\ moe_input = moe_schools
    /\ filter_pc = "ready"

filter_moe_schools ==
    /\ filter_pc = "ready"
    /\ moe_schools' = filter_loop(moe_schools)
    /\ filter_pc' = IF FilterRaisingIds(moe_schools) = {} THEN "filtered" ELSE "raised"
    /\ UNCHANGED moe_input
    /\ UNCHANGED <<cvars, tvars, db_committed, db_session, temp_facilities_table, update,
                   input_layer, upload, intlike_col, intlike_result>>

FilterSpec == FilterInit /\ [][filter_moe_schools]_vars

(***************************************************************************)
(* The update_facilities plugin (src/update_facilities).  The database is    *)
(* the facilities table, a set of rows with a unique facility_id, and the    *)
(* temp_facilities table, a list of rows; a geometry is its WKT, a name.     *)
(* db_session is what the open transaction of plugin.dbconn sees and         *)
(* db_committed what was last committed.  The logger writes through a        *)
(* connection of its own (facilities_logging.py 20-28) and is left out.      *)
(***************************************************************************)
\* conn.rollback() and conn.commit() on the state threaded through a run
rollback(st) == [st EXCEPT !.session = st.committed]

commit(st) == [st EXCEPT !.committed = st.session]

\* sql/update_facilities_table_sql.py 4-8
add_error_description_to_temp_facilities(db, error_description, fid) ==
    [db EXCEPT !.temp_facilities =
        [i \in DOMAIN db.temp_facilities |->
            IF db.temp_facilities[i].fid = fid
            THEN [db.temp_facilities[i] EXCEPT
                     !.error_description = db.temp_facilities[i].error_description
                                               \o error_description]
            ELSE db.temp_facilities[i]]]

\* The error handler without its rollback
update_temp_facilities_error_description_norollback(st, error_description, fid) ==
    commit([st EXCEPT !.session =
               add_error_description_to_temp_facilities(st.session, error_description, fid)])

\* update_facilities_table.py 16-30
update_temp_facilities_error_description(st, error_description, fid) ==
    commit([rollback(st) EXCEPT !.session =
               add_error_description_to_temp_facilities(rollback(st).session,
                                                        error_description, fid)])

\* An anomaly: self.update_error = True, then the error description of the
\* row; flagged records that this row set update_error
report(st, error_description, fid) ==
    update_temp_facilities_error_description(
        [st EXCEPT !.update_error = TRUE, !.flagged = TRUE], error_description, fid)

returns(st, value) == [st EXCEPT !.ret = value]

raises(st) == [st EXCEPT !.raised = TRUE, !.ret = FALSE]

\* The queries of sql/update_facilities_table_sql.py
select_facility_with_id(db, facility_id) ==
    {f \in db.facilities : f.facility_id = facility_id}

AttrKey(f) == <<f.source_facility_id, f.name, f.source_name>>

\* update_facilities_table.py 251-302
add_facility(st, trow) ==
    LET \* add_facility_count: facility_id is the next value of the serial column
        db == st.session
        s1 == [st EXCEPT !.session.facilities = db.facilities \cup
                  {[facility_id |-> IF db.facilities = {} THEN 1
                                    ELSE MaxOf({f.facility_id : f \in db.facilities}) + 1,
                    source_facility_id |-> trow.source_facility_id,
                    name |-> trow.name,
                    source_name |-> trow.source_name,
                    shape |-> trow.shape_wkt]}]
        added_count == Cardinality(s1.session.facilities) - Cardinality(st.session.facilities)
    IN IF added_count # 1
       THEN returns(report(s1, "Failed to add facility, added " \o ToString(added_count)
                                   \o " features when 1 should have been added. ", trow.fid),
                    FALSE)
       ELSE returns(s1, TRUE)

\* update_facilities_table.py 304-379: both counts are read before either
\* anomaly is reported
add_facility_duplicate_check(st, trow) ==
    LET \* select_facilities_with_attributes_count, select_facilities_with_geom_count
        attr_row_count ==
            Cardinality({f \in st.session.facilities : AttrKey(f) = AttrKey(trow)})
        geom_row_count ==
            Cardinality({f \in st.session.facilities : f.shape = trow.shape_wkt})
        s1 == IF attr_row_count # 1
              THEN report(st, "Failed to add facility, duplicate attributes. ", trow.fid)
              ELSE st
        s2 == IF geom_row_count # 1
              THEN report(s1, "Failed to add facility, duplicate geometry. ", trow.fid)
              ELSE s1
    IN returns(s2, attr_row_count = 1 /\ geom_row_count = 1)

\* update_facilities_table.py 420-466: line 422 reads
\* select_facilities_with_overlapping_geom_count, a name that
\* sql/update_facilities_table_sql.py does not define: AttributeError
check_overlapping_geom(st, trow) == raises(st)

\* update_facilities_table.py 468-563
remove_facility(st, trow) ==
    LET rows == select_facility_with_id(st.session, trow.facility_id)
        row_count == Cardinality(rows)
        \* delete_facility_count
        s1 == [st EXCEPT !.session.facilities =
                  {f \in st.session.facilities : f.facility_id # trow.facility_id}]
        deleted_count == Cardinality(st.session.facilities) - Cardinality(s1.session.facilities)
    IN IF row_count = 0
       THEN returns(report(st, "Failed to delete facility, no matching id. ", trow.fid), FALSE)
       ELSE IF row_count > 1
       THEN raises([st EXCEPT !.update_error = TRUE, !.flagged = TRUE])
       ELSE IF deleted_count # 1
       THEN returns(report(s1, "Failed to delete facility, deleted " \o ToString(deleted_count)
                                   \o " features when 1 should have been deleted. ", trow.fid),
                    FALSE)
       ELSE returns(s1, TRUE)

\* Lines 605-706 and 848-949: the statement of the sql column and its checks
apply_change_sql(st, trow, original_feature_attr) ==
    LET change_sql == trow.change_sql[1]
        \* the statement in the sql column:
        \* UPDATE ... SET name = .. WHERE facility_id = ..
        s1 == [st EXCEPT !.session.facilities =
                  {IF f.facility_id = change_sql.facility_id
                   THEN [f EXCEPT !.name = change_sql.name] ELSE f :
                       f \in st.session.facilities}]
        \* the rows the statement updates
        attribute_count ==
            Cardinality({f \in st.session.facilities :
                            f.facility_id = change_sql.facility_id})
        new_feature_attr == select_facility_with_id(s1.session, trow.facility_id)
        \* duplicate_facilities_count: the self join on the attributes
        duplicate_count ==
            Cardinality({<<t1, t2>> \in s1.session.facilities \X s1.session.facilities :
                            t1.facility_id = trow.facility_id /\ AttrKey(t1) = AttrKey(t2)})
        \* the text of the sql column, as the error descriptions quote it
        SqlText ==
            "UPDATE facilities.facilities SET name='" \o change_sql.name
                \o "' WHERE facility_id=" \o ToString(change_sql.facility_id) \o ";"
    IN IF attribute_count # 1
       THEN returns(report(s1, "Failed to modify facility using change_sql: "
                                   \o SqlText \o ". ", trow.fid), FALSE)
       ELSE IF {AttrKey(f) : f \in new_feature_attr} = {AttrKey(f) : f \in original_feature_attr}
       THEN returns(report(s1, "Failed to modify facility using change_sql: "
                                   \o SqlText
                                   \o ". New attributes match the old attributes. ", trow.fid),
                    FALSE)
       ELSE IF duplicate_count # 1
       THEN returns(report(s1, "Failed to modify facility using change_sql: "
                                   \o SqlText \o ". Created duplicates. ", trow.fid),
                    FALSE)
       ELSE returns(s1, TRUE)

\* update_facilities_table.py 565-706
update_attr(st, trow) ==
    LET original_feature_rows == select_facility_with_id(st.session, trow.facility_id)
    IN IF Cardinality(original_feature_rows) # 1
       THEN returns(report(st, "Failed to modify facility, no matching id. ", trow.fid), FALSE)
       ELSE IF trow.change_sql = None
       THEN raises(st)
       ELSE apply_change_sql(st, trow, original_feature_rows)

\* Lines 765-817 and 951-1004: the geometry statement and its count
apply_geom(st, trow, orig_wkt) ==
    LET \* update_facility_geom
        s1 == [st EXCEPT !.session.facilities =
                  {IF f.facility_id = trow.facility_id /\ f.shape # trow.shape_wkt
                   THEN [f EXCEPT !.shape = trow.shape_wkt] ELSE f :
                       f \in st.session.facilities}]
        \* the rows the statement updates
        modified_count ==
            Cardinality({f \in st.session.facilities :
                            f.facility_id = trow.facility_id /\ f.shape # trow.shape_wkt})
    IN IF modified_count # 1
       THEN IF orig_wkt = trow.shape_wkt
            THEN returns(report(s1, "Failed to update geometry, old and new geometries the same. ",
                                trow.fid), FALSE)
            ELSE returns(report(s1, "Failed to update geometry, updated "
                                        \o ToString(modified_count)
                                        \o " features when 1 should have been updated. ",
                                trow.fid), FALSE)
       ELSE returns(s1, TRUE)

\* update_facilities_table.py 708-819
update_geom(st, trow) ==
    LET rows == select_facility_with_id(st.session, trow.facility_id)
        row_count == Cardinality(rows)
    IN IF row_count = 0
       THEN returns(report(st, "Failed to modify facility, no matching id. ", trow.fid), FALSE)
       ELSE IF row_count > 1
       THEN returns(report(st, "Failed to modify facility, " \o ToString(row_count)
                                   \o " features macthed when 1 should have been identified. ",
                           trow.fid), FALSE)
       ELSE apply_geom(st, trow, (CHOOSE f \in rows : TRUE).shape)

\* update_facilities_table.py 821-1006: rows[0][0] on an id that is not in
\* the table raises IndexError, a null sql column TypeError; the geometry
\* statement runs whatever the attribute checks found
update_geom_attr(st, trow) ==
    LET rows == select_facility_with_id(st.session, trow.facility_id)
    IN IF rows = {} \/ trow.change_sql = None
       THEN raises(st)
       ELSE LET s1 == apply_change_sql(st, trow, rows)
                s2 == apply_geom(s1, trow, (CHOOSE f \in rows : TRUE).shape)
            IN returns(s2, s1.ret /\ s2.ret)

\* update_facilities_table.py 95-172: the body of the loop for one row; a
\* call that raises ends the body where it stands, and counter names the
\* counter the row adds one to
loop_body(st, trow) ==
    IF trow.change_action = Some("add")
    THEN LET s1 == add_facility(st, trow)
             s2 == add_facility_duplicate_check(s1, trow)
             s3 == check_overlapping_geom(s2, trow)
         IN IF ~s1.ret THEN s1
            ELSE IF s3.raised THEN s3
            ELSE IF s2.ret /\ s3.ret THEN [s3 EXCEPT !.counter = "added"] ELSE s3
    ELSE IF trow.change_action = Some("remove")
    THEN LET s1 == remove_facility(st, trow)
         IN IF s1.ret THEN [s1 EXCEPT !.counter = "deleted"] ELSE s1
    ELSE IF trow.change_action = Some("update_geom")
    THEN LET s1 == update_geom(st, trow)
             s2 == check_overlapping_geom(s1, trow)
         IN IF s2.raised THEN s2
            ELSE IF s1.ret /\ s2.ret THEN [s2 EXCEPT !.counter = "geom_changed"] ELSE s2
    ELSE IF trow.change_action = Some("update_attr")
    THEN LET s1 == update_attr(st, trow)
         IN IF s1.ret THEN [s1 EXCEPT !.counter = "attributes_changed"] ELSE s1
    ELSE IF trow.change_action = Some("update_geom_attr")
    THEN LET s1 == update_geom_attr(st, trow)
             s2 == check_overlapping_geom(s1, trow)
         IN IF s1.raised THEN s1
            ELSE IF s2.raised THEN s2
            ELSE IF s1.ret /\ s2.ret THEN [s2 EXCEPT !.counter = "geom_and_attributes_changed"] ELSE s2
    ELSE IF trow.change_action \in {None, Some("")}
    THEN [st EXCEPT !.counter = "no_change"]
    ELSE [st EXCEPT !.update_error = TRUE, !.flagged = TRUE]

\* The temp_facilities tables of n rows: the rows a run may find at place
\* n, the fid of a row being its place in the table
RECURSIVE TempTables(_)
TempTables(n) ==
    IF n = 0 THEN {<<>>}
    ELSE LET TempRow(facility_id, source_facility_id, name, source_name,
                     change_action, change_sql, shape_wkt) ==
                 [fid |-> 0, facility_id |-> facility_id,
                  source_facility_id |-> source_facility_id,
                  name |-> name, source_name |-> source_name, change_action |-> change_action,
                  change_sql |-> change_sql, shape_wkt |-> shape_wkt, error_description |-> ""]
             Sql(facility_id, name) == Some([facility_id |-> facility_id, name |-> name])
             RemoveRows ==
                 {TempRow(1, 10, "Alpha", "Alpha", Some("remove"), None, "P1"),
                  TempRow(9, 90, "Iota", "Iota", Some("remove"), None, "P9")}
             AttrRows ==
                 {TempRow(1, 10, "Alpha", "Alpha", Some("update_attr"), Sql(1, "Alpha2"), "P1"),
                  TempRow(2, 20, "Beta", "Beta", Some("update_attr"), Sql(2, "Beta"), "P2"),
                  TempRow(3, 10, "Gamma", "Alpha", Some("update_attr"), Sql(3, "Alpha"), "P3"),
                  TempRow(9, 90, "Iota", "Iota", Some("update_attr"), Sql(9, "Iota2"), "P9"),
                  TempRow(1, 10, "Alpha", "Alpha", Some("update_attr"), Sql(9, "Alpha2"), "P1"),
                  TempRow(2, 20, "Beta", "Beta", Some("update_attr"), None, "P2")}
             PlainRows ==
                 {TempRow(2, 20, "Beta", "Beta", None, None, "P2"),
                  TempRow(2, 20, "Beta", "Beta", Some(""), None, "P2"),
                  TempRow(2, 20, "Beta", "Beta", Some("delete"), None, "P2")}
             GeomRows ==
                 {TempRow(0, 30, "Delta", "Delta", Some("add"), None, "P4"),
                  TempRow(0, 10, "Alpha", "Alpha", Some("add"), None, "P1"),
                  TempRow(1, 10, "Alpha", "Alpha", Some("update_geom"), None, "P1b"),
                  TempRow(1, 10, "Alpha", "Alpha", Some("update_geom"), None, "P1"),
                  TempRow(9, 90, "Iota", "Iota", Some("update_geom"), None, "P9"),
                  TempRow(1, 10, "Alpha", "Alpha", Some("update_geom_attr"), Sql(1, "Alpha2"), "P1b"),
                  TempRow(9, 90, "Iota", "Iota", Some("update_geom_attr"), Sql(9, "Iota2"), "P9")}
             TempRowChoices ==
                 CASE n = 1 -> RemoveRows \cup AttrRows \cup PlainRows \cup GeomRows
                   [] n = 2 -> RemoveRows \cup AttrRows \cup PlainRows
                   [] n = 3 -> {TempRow(1, 10, "Alpha", "Alpha", Some("remove"), None, "P1"),
                                TempRow(2, 20, "Beta", "Beta", None, None, "P2"),
                                TempRow(2, 20, "Beta", "Beta", Some("delete"), None, "P2"),
                                TempRow(9, 90, "Iota", "Iota", Some("update_geom_attr"),
                                        Sql(9, "Iota2"), "P9")}
                   [] OTHER -> {TempRow(2, 20, "Beta", "Beta", None, None, "P2"),
                                TempRow(9, 90, "Iota", "Iota", Some("remove"), None, "P9")}
         IN {Append(t, [r EXCEPT !.fid = n]) :
                <<t, r>> \in TempTables(n - 1) \X TempRowChoices}

IdleUpdate ==
    [pc |-> "ready", run |-> 0, count |-> 0, update_error |-> FALSE,
     no_change |-> 0, added |-> 0, deleted |-> 0, geom_changed |-> 0,
     attributes_changed |-> 0, geom_and_attributes_changed |-> 0,
     flagged |-> {}, counter |-> "none", before |-> <<>>]

ApplyInit ==
    /\ ClassifierIdle
    /\ TitlesIdle
    /\ ExtraIdle({"db", "apply"})
    /\ LET Facility(facility_id, source_facility_id, name, source_name, shape) ==
               [facility_id |-> facility_id, source_facility_id |-> source_facility_id,
                name |-> name, source_name |-> source_name, shape |-> shape]
           \* the facilities table before a run
           FacilityTables ==
               {{},
                {Facility(1, 10, "Alpha", "Alpha", "P1"),
                 Facility(2, 20, "Beta", "Beta", "P2"),
                 Facility(3, 10, "Gamma", "Alpha", "P3")}}
       IN db_committed \in [facilities : FacilityTables,
                            temp_facilities : UNION {TempTables(n) : n \in 0..MaxRows}]
    /\ db_session = db_committed
    /\ temp_facilities_table = <<>>
    /\ update = IdleUpdate

\* update_facilities_table.py 32-93: run_test_dbconn opens a new connection
\* (test_dbconn.py 52-59), which sees what was committed; the rows are
\* selected, the flag and the counters reset; an empty table ends the run
StartRun ==
    /\ update.pc \in {"ready", "returned", "raised", "failed", "updated"}
    /\ update.run < MaxRuns
    /\ db_session' = db_committed
    /\ temp_facilities_table' = db_committed.temp_facilities
    /\ update' = [IdleUpdate EXCEPT
                     !.run = update.run + 1,
                     !.before = db_committed.facilities,
                     !.pc = IF Len(db_committed.temp_facilities) = 0
                            THEN "returned" ELSE "loop"]
    /\ UNCHANGED db_committed
    /\ UNCHANGED <<cvars, tvars, moe_schools, moe_input, filter_pc,
                   input_layer, upload, intlike_col, intlike_result>>

\* update_facilities_table.py 95-172: one iteration of the loop
ProcessRow ==
    /\ update.pc = "loop"
    /\ update.count < Len(temp_facilities_table)
    /\ LET trow == temp_facilities_table[update.count + 1]
           s == loop_body([session |-> db_session, committed |-> db_committed,
                           update_error |-> update.update_error, flagged |-> FALSE,
                           raised |-> FALSE, ret |-> FALSE, counter |-> "none"], trow)
           Bump(n, name, counter) == IF counter = name THEN n + 1 ELSE n
       IN /\ db_session' = s.session
          /\ db_committed' = s.committed
          /\ update' = [update EXCEPT
                !.pc = IF s.raised THEN "raised" ELSE "loop",
                !.count = update.count + 1,
                !.update_error = s.update_error,
                !.no_change = Bump(@, "no_change", s.counter),
                !.added = Bump(@, "added", s.counter),
                !.deleted = Bump(@, "deleted", s.counter),
                !.geom_changed = Bump(@, "geom_changed", s.counter),
                !.attributes_changed = Bump(@, "attributes_changed", s.counter),
                !.geom_and_attributes_changed =
                    Bump(@, "geom_and_attributes_changed", s.counter),
                !.flagged = IF s.flagged THEN @ \cup {trow.fid} ELSE @,
                !.counter = s.counter]
    /\ UNCHANGED temp_facilities_table
    /\ UNCHANGED <<cvars, tvars, moe_schools, moe_input, filter_pc,
                   input_layer, upload, intlike_col, intlike_result>>

\* update_facilities_table.py 174-249: rollback when update_error is set,
\* commit otherwise
FinishRun ==
    /\ update.pc = "loop"
    /\ update.count = Len(temp_facilities_table)
    /\ IF update.update_error
       THEN /\ db_session' = db_committed
            /\ db_committed' = db_committed
            /\ update' = [update EXCEPT !.pc = "failed"]
       ELSE /\ db_committed' = db_session
            /\ db_session' = db_session
            /\ update' = [update EXCEPT !.pc = "updated"]
    /\ UNCHANGED temp_facilities_table
    /\ UNCHANGED <<cvars, tvars, moe_schools, moe_input, filter_pc,
                   input_layer, upload, intlike_col, intlike_result>>

ApplyNext ==
    \/ StartRun
    \/ ProcessRow
    \/ FinishRun

ApplySpec == ApplyInit /\ [][ApplyNext]_vars

(***************************************************************************)
(* is_col_intlike (core/util.py).  A Series is its dtype and its values; a  *)
(* number is kept in tenths, so that 15 is 1.5 and 20 is 2.0.               *)
(***************************************************************************)
\* core/util.py 194-230
is_col_intlike(s) ==
    LET \* pandas.api.types on a Series
        is_bool_dtype == s.dtype = "bool"
        is_numeric_dtype == s.dtype \in {"int64", "float64", "Int64", "bool"}
        is_object_dtype == s.dtype = "object"
        \* pd.isna on one value
        isna(val) == val.kind = "null"
        \* is_numeric_dtype on one value of s.unique(): true of a numpy
        \* scalar, which is what a column of a numeric dtype holds, and false
        \* of a Python object
        is_numeric_value(val) == s.dtype \in {"int64", "float64", "Int64"}
        \* float(val).is_integer()
        is_integer(val) == val.tenths % 10 = 0
    IN IF is_bool_dtype THEN FALSE
       \* line 215
       ELSE IF ~is_numeric_dtype \/ ~is_object_dtype THEN FALSE
       ELSE \A i \in DOMAIN s.values :
               \/ isna(s.values[i])
               \/ is_numeric_value(s.values[i]) /\ is_integer(s.values[i])

IntlikeInit ==
    /\ ClassifierIdle
    /\ TitlesIdle
    /\ ExtraIdle({"intlike"})
    \* the columns of a DataFrame built from the records (dict_to_df)
    /\ LET Value(kind, tenths) == [kind |-> kind, tenths |-> tenths]
           NullValue == Value("null", 0)
           ValuesOf(dtype) ==
               CASE dtype = "int64" -> {Value("int", 0), Value("int", 10), Value("int", 70)}
                 [] dtype = "float64" -> {Value("float", 10), Value("float", 15), NullValue}
                 [] dtype = "Int64" -> {Value("int", 10), NullValue}
                 [] dtype = "bool" -> {Value("bool", 0), Value("bool", 10)}
                 [] dtype = "object" -> {Value("int", 10), Value("float", 20),
                                         Value("float", 25), Value("str", 0), NullValue}
                 [] OTHER -> {Value("time", 0), NullValue}
           Dtypes == {"int64", "float64", "Int64", "bool", "object", "datetime64[ns]"}
       IN intlike_col \in
              UNION {{[dtype |-> d, values |-> l] : l \in [1..n -> ValuesOf(d)]} :
                        <<d, n>> \in Dtypes \X (0..MaxVals)}
    /\ intlike_result = None

\* core/util.py 187-190: convert_intlike_cols_to_nullable_int asks for a column
convert_intlike_cols_to_nullable_int ==
    /\ intlike_result = None
    /\ intlike_result' = Some(is_col_intlike(intlike_col))
    /\ intlike_col' = IF is_col_intlike(intlike_col)
                      THEN [intlike_col EXCEPT !.dtype = "Int64"] ELSE intlike_col
    /\ UNCHANGED <<cvars, tvars, moe_schools, moe_input, filter_pc, db_committed, db_session,
                   temp_facilities_table, update, input_layer, upload>>

IntlikeSpec == IntlikeInit /\ [][convert_intlike_cols_to_nullable_int]_vars

(***************************************************************************)
(* update_temp_facilities (update_temp_facilities.py).  A feature of the    *)
(* input layer is its fid and the WKT of its geometry; the insert of a      *)
(* feature whose WKT does not parse is rejected by the database.            *)
(***************************************************************************)
\* catch_NULL, lines 111-115
catch_NULL(variable) == IF variable = "" THEN None ELSE Some(variable)

\* sql/update_temp_facilities_table_sql.py 15-20
insert_temp_facilities(db, feature) ==
    [db EXCEPT !.temp_facilities =
        Append(db.temp_facilities,
               [fid |-> feature.fid, shape_wkt |-> catch_NULL(feature.shape)])]

\* dbconn.py 32-63, for a statement that succeeds: execute, then commit
db_execute(st, after) == commit([st EXCEPT !.session = after])

UploadInit ==
    /\ ClassifierIdle
    /\ TitlesIdle
    /\ ExtraIdle({"db", "upload"})
    /\ LET Shapes == {"MULTIPOLYGON(((0 0,0 1,1 1,0 0)))", "POLYGON((", ""}
       IN input_layer \in
              UNION {{[i \in 1..n |-> [fid |-> i, shape |-> shape[i]]] :
                         shape \in [1..n -> Shapes]} : n \in 0..MaxFeatures}
    /\ db_committed \in {[facilities |-> {}, temp_facilities |-> t] :
                            t \in {<<>>, <<[fid |-> 7, shape_wkt |-> None]>>}}
    /\ db_session = db_committed
    /\ upload = [pc |-> "ready", next |-> 1, count |-> 0, update_error |-> FALSE]

\* Lines 121-134: truncate_temp_facilities_table, which db_execute commits
TruncateTempFacilities ==
    /\ upload.pc = "ready"
    /\ LET s == db_execute([session |-> db_session, committed |-> db_committed],
                           [db_session EXCEPT !.temp_facilities = <<>>])
       IN /\ db_session' = s.session
          /\ db_committed' = s.committed
    /\ upload' = [upload EXCEPT !.pc = "loop"]
    /\ UNCHANGED input_layer
    /\ UNCHANGED <<cvars, tvars, moe_schools, moe_input, filter_pc,
                   temp_facilities_table, update, intlike_col, intlike_result>>

\* Lines 135-200: one feature; dbconn.select runs the insert through
\* db_execute and returns None when it failed: ST_GeometryFromText raises
\* on text that is not WKT, and db_execute rolls back (dbconn.py 51-54)
InsertFeature ==
    /\ upload.pc = "loop"
    /\ upload.next <= Len(input_layer)
    /\ LET feature == input_layer[upload.next]
           st == [session |-> db_session, committed |-> db_committed]
           StatementFails == catch_NULL(feature.shape) = Some("POLYGON((")
           s == IF StatementFails THEN rollback(st)
                ELSE db_execute(st, insert_temp_facilities(db_session, feature))
       IN /\ db_session' = s.session
          /\ db_committed' = s.committed
          /\ upload' = [upload EXCEPT
                !.next = upload.next + 1,
                !.update_error = upload.update_error \/ StatementFails,
                !.count = IF StatementFails THEN upload.count ELSE upload.count + 1]
    /\ UNCHANGED input_layer
    /\ UNCHANGED <<cvars, tvars, moe_schools, moe_input, filter_pc,
                   temp_facilities_table, update, intlike_col, intlike_result>>

\* Lines 202-214: rollback when a feature failed, commit otherwise
FinishUpload ==
    /\ upload.pc = "loop"
    /\ upload.next > Len(input_layer)
    /\ LET st == [session |-> db_session, committed |-> db_committed]
           s == IF upload.update_error THEN rollback(st) ELSE commit(st)
       IN /\ db_session' = s.session
          /\ db_committed' = s.committed
    /\ upload' = [upload EXCEPT !.pc = IF upload.update_error THEN "failed" ELSE "uploaded"]
    /\ UNCHANGED input_layer
    /\ UNCHANGED <<cvars, tvars, moe_schools, moe_input, filter_pc,
                   temp_facilities_table, update, intlike_col, intlike_result>>

UploadNext ==
    \/ TruncateTempFacilities
    \/ InsertFeature
    \/ FinishUpload

UploadSpec == UploadInit /\ [][UploadNext]_vars

(***************************************************************************)
(* Properties                                                              *)
(***************************************************************************)
RegAction(id) == facilities[id].change_action

ExtAction(id) == external_sources[id].change_action

\* The register ids that have a same-id external record not flagged ignore
Pairs == {id \in DOMAIN facilities : IsMatch(external_sources, id)}

Added(id) == IF variant = "hpi" THEN id \in new ELSE ExtAction(id) = Some(ADD)

\* C1: after a completed pass every register id is either matched and
\* annotated or removed, never both and never neither; every external id not
\* flagged ignore is either matched or added, never both and never neither.
PartitionAfterPass ==
    pc = "done" =>
        /\ \A r \in DOMAIN facilities : (r \in matched) # (RegAction(r) = Some(REMOVE))
        /\ \A e \in DOMAIN external_sources :
              ExtAction(e) # Some(IGNORE) => ((e \in matched) # Added(e))

PartitionWitness ==
    /\ pc = "done"
    /\ matched # {}
    /\ \E e \in DOMAIN external_sources : Added(e) /\ e \notin matched
    /\ \A r \in matched : RegAction(r) # Some(REMOVE)

\* C2: an external record flagged ignore stays ignore through every step
\* (it is never set to add), and when a pass completes a register record
\* with the same id is classified remove.
IgnoreSuppressesBothDirections ==
    [][\A e \in DOMAIN external_sources :
          ExtAction(e) = Some(IGNORE) =>
              /\ external_sources'[e].change_action = Some(IGNORE)
              /\ (pc' = "done" /\ e \in DOMAIN facilities) =>
                    facilities'[e].change_action = Some(REMOVE)]_vars

IgnoreWitness ==
    /\ pc = "done"
    /\ \E e \in DOMAIN external_sources \cap DOMAIN facilities :
          /\ ExtAction(e) = Some(IGNORE)
          /\ RegAction(e) = Some(REMOVE)
          /\ facilities[e].sql = None

\* The distance of a same-id pair as the comparator defines it: null when
\* either geometry is null
PairDistance(id) ==
    IF facilities[id].geom = None \/ external_sources[id].geom = None THEN None
    ELSE Some(distance(facilities[id].geom[1], external_sources[id].geom[1]))

GeomFlagged(id) == RegAction(id) \in {Some(UPDATE_GEOM), Some(UPDATE_GEOM_ATTR)}

AllAttrsKnown == \A i \in 1..Len(check_attrs) : HasAttr(check_attrs[i])

\* C3: for every matched pair with a null geometry on the register side or
\* on the external side, the pass completes without raising and the
\* register record ends as update_geom or update_geom_attr.
NullGeometryForcesGeometryChange ==
    (pc \in {"done", "raised"} /\ AllAttrsKnown) =>
        \A r \in Pairs :
            (facilities[r].geom = None \/ external_sources[r].geom = None) =>
                (pc = "done" /\ GeomFlagged(r))

\* C4: for every matched pair the register record is flagged as geometry
\* changed exactly when is_geom_within_threshold() is false for the pair's
\* distance, so also at a distance equal to the threshold.
GeometryDecisionFollowsThreshold ==
    pc = "done" =>
        \A r \in Pairs : GeomFlagged(r) <=> ~is_geom_within_threshold(PairDistance(r))

\* C5: is_geom_within_threshold() is true exactly for a non-null distance
\* strictly below the threshold: false at the threshold, above it and for a
\* null distance; compare_schools, which uses it, flags exactly the rest.
ThresholdBoundary ==
    \A r \in DOMAIN facilities \cap DOMAIN external_sources :
        LET d == PairDistance(r)
        IN /\ is_geom_within_threshold(d) = (d # None /\ d[1] < DISTANCE_THRESHOLD)
           /\ (d # None /\ d[1] = DISTANCE_THRESHOLD) => ~is_geom_within_threshold(d)
           /\ (pc = "done" /\ variant = "schools" /\ r \in Pairs) =>
                 (GeomFlagged(r) <=> (d = None \/ d[1] >= DISTANCE_THRESHOLD))

ThresholdBoundaryWitness ==
    /\ pc = "done"
    /\ variant = "schools"
    /\ \E r \in Pairs :
          /\ PairDistance(r) = Some(DISTANCE_THRESHOLD)
          /\ ~is_geom_within_threshold(PairDistance(r))
          /\ GeomFlagged(r)

\* The compared attributes whose register and external values differ
Differing(r) ==
    {check_attrs[i] : i \in {j \in 1..Len(check_attrs) :
        GetAttr(facilities[r], check_attrs[j]) # GetAttr(external_sources[r], check_attrs[j])}}

CoreVariant == variant \in {"facilities", "schools"}

\* C6: in compare_facilities and compare_schools a matched pair whose
\* distance is within the threshold and whose compared attributes are all
\* equal keeps a null change_action, and a further pass over the same
\* collections leaves every change_action as the pass before left it.
NoDifferenceAndIdempotence ==
    (CoreVariant /\ pc = "done") =>
        /\ \A r \in Pairs :
              (is_geom_within_threshold(PairDistance(r)) /\ Differing(r) = {}) =>
                  RegAction(r) = None
        /\ run > 1 =>
              last_actions = Some(<<ActionsOf(facilities), ActionsOf(external_sources)>>)

NoDifferenceWitness ==
    /\ CoreVariant
    /\ pc = "done"
    /\ run > 1
    /\ \E r \in Pairs :
          /\ is_geom_within_threshold(PairDistance(r))
          /\ Differing(r) = {}
          /\ RegAction(r) = None
    /\ \E r \in Pairs : RegAction(r) = Some(UPDATE_GEOM_ATTR)
    /\ last_actions # None

GeometryRecorded(r) ==
    IF variant = "schools" THEN ~is_geom_within_threshold(PairDistance(r))
    ELSE \/ external_sources[r].geom = None
         \/ distance(facilities[r].geom[1], external_sources[r].geom[1]) > DISTANCE_THRESHOLD

GeomNoteOf(r) ==
    IF PairDistance(r) = None THEN "Geom: missing"
    ELSE "Geom: " \o Fmt1f(PairDistance(r)[1]) \o "m"

\* The names, as the description spells them, of the attributes that differ
\* by ordinary equality
DifferingNames(r) ==
    IF variant = "hpi"
    THEN {FACILITIES_HPI_COMPARISON_COLUMNS[i][1] :
            i \in {j \in 1..Len(FACILITIES_HPI_COMPARISON_COLUMNS) :
                FacCol(facilities[r], FACILITIES_HPI_COMPARISON_COLUMNS[j][1])
                    # HpiColumn(external_sources[r], FACILITIES_HPI_COMPARISON_COLUMNS[j][2])}}
    ELSE Differing(r)

\* The action and the description of a pair with a changed attribute, given
\* the separator between the geometry note and the attribute note
EscalatesWith(r, sep) ==
    LET desc == facilities[r].change_description[1]
    IN /\ facilities[r].change_description # None
       /\ \A a \in DifferingNames(r) : Contains(desc, a)
       /\ IF GeometryRecorded(r)
          THEN /\ RegAction(r) = Some(UPDATE_GEOM_ATTR)
               /\ StartsWith(desc, GeomNoteOf(r) \o sep)
          ELSE /\ RegAction(r) = Some(UPDATE_ATTR)
               /\ ~Contains(desc, "Geom: ")

\* C8 as stated: with a geometry change recorded and a changed attribute the
\* action is update_geom_attr and the description is the geometry note, then
\* ", ", then the attribute note; with only changed attributes the action is
\* update_attr and the description is the attribute note alone.
EscalationJoinedByComma ==
    pc = "done" =>
        \A r \in Pairs : DifferingNames(r) # {} => EscalatesWith(r, ", ")

\* C8 as amended: the same, the separator being ", " in compare_facilities
\* and compare_schools and ";  " in compare_facilities_to_hpi.
EscalationAndDescriptionOrder ==
    pc = "done" =>
        \A r \in Pairs :
            DifferingNames(r) # {} =>
                EscalatesWith(r, IF variant = "hpi" THEN ";  " ELSE ", ")

EscalationWitness ==
    /\ pc = "done"
    /\ variant = "hpi"
    /\ \E r \in Pairs :
          /\ DifferingNames(r) # {}
          /\ GeometryRecorded(r)
          /\ RegAction(r) = Some(UPDATE_GEOM_ATTR)
          /\ StartsWith(facilities[r].change_description[1], "Geom: 351.0m;  name: ")

\* C9: after a completed pass of compare_facilities or compare_schools a
\* register record has an SQL statement exactly when its change_action is
\* update_attr or update_geom_attr.
SqlOnlyOnAttributeChange ==
    (CoreVariant /\ pc = "done") =>
        \A r \in DOMAIN facilities :
            (facilities[r].sql # None) <=>
                RegAction(r) \in {Some(UPDATE_ATTR), Some(UPDATE_GEOM_ATTR)}

SqlOnlyWitness ==
    /\ CoreVariant
    /\ pc = "done"
    /\ \E r \in DOMAIN facilities :
          RegAction(r) = Some(UPDATE_GEOM_ATTR) /\ facilities[r].sql # None
    /\ \E r \in DOMAIN facilities :
          RegAction(r) \in {Some(UPDATE_GEOM), Some(REMOVE), None} /\ facilities[r].sql = None

\* C10: the statement assigns name and source_name exactly when source_name
\* changed, use_type exactly when source_type changed and
\* estimated_occupancy exactly when occupancy changed, each to the external
\* value; a changed attribute without a mapping is in the description but
\* not in the statement; the statement ends with last_modified=CURRENT_DATE
\* and the WHERE on facility_id and source_facility_id.
SqlPatchShape ==
    (CoreVariant /\ pc = "done") =>
        \A r \in Pairs :
            facilities[r].sql # None =>
                LET sql == facilities[r].sql[1]
                    ext == external_sources[r]
                    D == Differing(r)
                IN /\ Contains(sql, " name='") <=> "source_name" \in D
                   /\ Contains(sql, "source_name='") <=> "source_name" \in D
                   /\ "source_name" \in D =>
                         /\ Contains(sql, " name='" \o ext.source_name \o "'")
                         /\ Contains(sql, " source_name='" \o ext.source_name \o "'")
                   /\ Contains(sql, "use_type='") <=> "source_type" \in D
                   /\ "source_type" \in D =>
                         Contains(sql, "use_type='" \o ext.source_type \o "'")
                   /\ Contains(sql, "estimated_occupancy='") <=> "occupancy" \in D
                   /\ "occupancy" \in D =>
                         Contains(sql, "estimated_occupancy='" \o PyStrOpt(ext.occupancy) \o "'")
                   /\ \A a \in D \ {"source_name", "source_type", "occupancy"} :
                         /\ ~Contains(sql, a)
                         /\ Contains(facilities[r].change_description[1], a)
                   /\ \E ws \in {" ", "\n"} :
                         EndsWith(sql, "last_modified=CURRENT_DATE" \o ws
                                         \o "WHERE facility_id=" \o ToString(facilities[r].facilities_id)
                                         \o " AND source_facility_id="
                                         \o ToString(facilities[r].source_id) \o ";")

SqlPatchWitness ==
    /\ variant = "facilities"
    /\ pc = "done"
    /\ \E r \in Pairs :
          /\ facilities[r].sql # None
          /\ Differing(r) = {"geom", "occupancy"}
          /\ Contains(facilities[r].change_description[1], "geom")
          /\ Contains(facilities[r].sql[1], "SET estimated_occupancy='")

\* The attributes the description of a matched register record reports as
\* changed
ReportedChanged(r) ==
    LET d == facilities[r].change_description
    IN IF d = None THEN {}
       ELSE CASE variant = "facilities" ->
                    {a \in SourceAttrNames : Contains(d[1], a \o ": \"")}
              [] variant = "schools" ->
                    {a \in SourceAttrNames : Contains(d[1], a)}
              [] variant = "hpi" ->
                    {FACILITIES_HPI_COMPARISON_COLUMNS[i][1] :
                        i \in {j \in 1..Len(FACILITIES_HPI_COMPARISON_COLUMNS) :
                            Contains(d[1], FACILITIES_HPI_COMPARISON_COLUMNS[j][1] \o ": \"")}}

\* C11: in every variant the attributes reported as changed for a matched
\* pair are exactly the requested attributes whose register value and
\* external value are unequal; two missing values are equal.
ChangedAttrsByOrdinaryEquality ==
    pc = "done" => \A r \in Pairs : ReportedChanged(r) = DifferingNames(r)

\* C12: when the comparison set names an attribute the records do not have
\* (and every register geometry is present, so that nothing else raises),
\* a first pass over fresh records raises, and at that moment no register
\* record has had its change_action, change_description or sql modified.
FailFastOnUnknownAttribute ==
    (/\ CoreVariant
     /\ ~AllAttrsKnown
     /\ pc # "ready"
     /\ \E r \in DOMAIN facilities : IsMatch(external_sources, r)
     /\ \A r \in DOMAIN facilities : facilities[r].geom # None) =>
        /\ pc = "raised"
        /\ \A r \in DOMAIN facilities :
              /\ facilities[r].change_action = None
              /\ facilities[r].change_description = None
              /\ facilities[r].sql = None

\* C13 as stated: within one pass of compare_facilities or compare_schools
\* the change_action of every record is written at most once.
SingleAssignment ==
    CoreVariant =>
        /\ \A r \in DOMAIN facilities : facilities[r].writes <= 1
        /\ \A e \in DOMAIN external_sources : external_sources[e].writes <= 1

\* C13 as amended: within one pass the change_action of a record is written
\* at most once, except that the update of a matched register record may
\* write update_geom and then escalate it to update_geom_attr; no other
\* value is ever overwritten.
SingleAssignmentButEscalation ==
    CoreVariant =>
        /\ \A r \in DOMAIN facilities :
              /\ facilities[r].writes <= 2
              /\ facilities[r].writes = 2 => RegAction(r) = Some(UPDATE_GEOM_ATTR)
              /\ facilities[r].writes = 1 =>
                    RegAction(r) \in {Some(REMOVE), Some(UPDATE_GEOM), Some(UPDATE_ATTR)}
        /\ \A e \in DOMAIN external_sources : external_sources[e].writes <= 1

SingleAssignmentWitness ==
    /\ CoreVariant
    /\ pc = "done"
    /\ \E r \in DOMAIN facilities :
          facilities[r].writes = 2 /\ RegAction(r) = Some(UPDATE_GEOM_ATTR)
    /\ \E r \in DOMAIN facilities :
          facilities[r].writes = 1 /\ RegAction(r) = Some(REMOVE)

(***************************************************************************)
(* Properties of the parcel merge                                          *)
(***************************************************************************)
\* The calls that found the point in a title
Seeded(w) ==
    \/ calls[w].pc = "loop"
    \/ calls[w].pc = "returned" /\ calls[w].result[1].geometry # None

\* The positions of the rows whose geometry holds the point of worker w
IntersectingRows(w) ==
    {i \in 1..Len(titles_gdf) : intersects(titles_gdf[i].geometry, input_gdf[w][1])}

\* The non-null owner names of those rows, in the column the call reads
OriginalOwners(w) ==
    {o[1] : o \in {OwnerOf(titles_gdf[i], owner_column(use_standardised_names)) :
                        i \in IntersectingRows(w)} \ {None}}

\* Whether some row of the title names one of the original owners
OwnedByOriginal(w, id) ==
    \E i \in 1..Len(titles_gdf) :
        /\ titles_gdf[i].id = id
        /\ OwnerOf(titles_gdf[i], owner_column(use_standardised_names)) # None
        /\ OwnerOf(titles_gdf[i], owner_column(use_standardised_names))[1] \in OriginalOwners(w)

\* The ids unioned into the seed geometry by the rounds so far
AbsorbedIds(w) == UNION {calls[w].absorbed[k] : k \in 1..Len(calls[w].absorbed)}

GeometryOf(ids) ==
    UNION {titles_gdf[i].geometry : i \in {j \in 1..Len(titles_gdf) : titles_gdf[j].id \in ids}}

\* C14: the owner set of a call is the set of owners of the titles that
\* intersect its point, in every round; every title absorbed has an owner
\* in it, and the seed geometry holds nothing of a title owned only by
\* others that does not intersect the point.
FrozenOwnerSet ==
    \A w \in Workers :
        Seeded(w) =>
            /\ calls[w].all_owners = OriginalOwners(w)
            /\ \A id \in AbsorbedIds(w) : OwnedByOriginal(w, id)
            /\ calls[w].geom \subseteq
                  GeometryOf({titles_gdf[i].id : i \in IntersectingRows(w)}
                                \cup {id \in {titles_gdf[i].id : i \in 1..Len(titles_gdf)} :
                                        OwnedByOriginal(w, id)})

FrozenOwnerSetWitness ==
    \E w \in Workers :
        /\ calls[w].pc = "returned"
        /\ Seeded(w)
        /\ AbsorbedIds(w) # {}
        /\ \E i \in 1..Len(titles_gdf) :
              /\ ~OwnedByOriginal(w, titles_gdf[i].id)
              /\ titles_gdf[i].id \notin calls[w].matching_ids
              /\ geometry_distance(titles_gdf[i].geometry, calls[w].geom) <= distance_threshold
              /\ ~(titles_gdf[i].geometry \subseteq calls[w].geom)

\* The rows a round of worker w may absorb: not intersecting the point, not
\* yet merged, of an original owner, within the threshold of the seed geometry
Eligible(w) ==
    {i \in 1..Len(titles_gdf) :
        /\ titles_gdf[i].id \notin calls[w].matching_ids \cup calls[w].merged_ids
        /\ OwnerOf(titles_gdf[i], owner_column(use_standardised_names)) # None
        /\ OwnerOf(titles_gdf[i], owner_column(use_standardised_names))[1] \in OriginalOwners(w)
        /\ geometry_distance(titles_gdf[i].geometry, calls[w].geom) <= distance_threshold}

\* C15: every iteration of the loop either returns or starts the next round,
\* the round number never exceeds TITLE_MERGE_MAX_ROUNDS, the iteration of
\* round TITLE_MERGE_MAX_ROUNDS returns whatever is still eligible, and an
\* iteration that finds nothing eligible returns.
RoundBound ==
    [][\A w \in Workers :
          (calls[w].pc = "loop" /\ calls'[w] # calls[w]) =>
              /\ calls[w].rounds <= TITLE_MERGE_MAX_ROUNDS
              /\ calls[w].rounds = TITLE_MERGE_MAX_ROUNDS => calls'[w].pc = "returned"
              /\ Eligible(w) = {} => calls'[w].pc = "returned"
              /\ \/ calls'[w].pc = "returned"
                 \/ /\ calls'[w].pc = "loop"
                    /\ calls'[w].rounds = calls[w].rounds + 1
                    /\ calls'[w].rounds <= TITLE_MERGE_MAX_ROUNDS]_vars

RoundBoundWitness ==
    \E w \in Workers :
        /\ calls[w].pc = "returned"
        /\ Seeded(w)
        /\ calls[w].rounds = TITLE_MERGE_MAX_ROUNDS
        /\ \E i \in 1..Len(titles_gdf) :
              /\ OwnedByOriginal(w, titles_gdf[i].id)
              /\ ~(titles_gdf[i].geometry \subseteq calls[w].geom)
              /\ geometry_distance(titles_gdf[i].geometry, calls[w].geom) <= distance_threshold

\* The ids of the titles a round of worker w may absorb
EligibleIds(w) == {titles_gdf[i].id : i \in Eligible(w)}

\* What an iteration of worker w unions into the seed geometry
UnionedBy(w) ==
    IF Len(calls'[w].absorbed) > Len(calls[w].absorbed)
    THEN calls'[w].absorbed[Len(calls'[w].absorbed)]
    ELSE {}

\* C16: in each round the titles unioned into the seed geometry are exactly
\* the titles not intersecting the point, not yet merged, of an owner of the
\* seed owner set and at a distance of at most the threshold from the seed
\* geometry; no title is absorbed in two rounds.
AbsorptionEligibility ==
    [][\A w \in Workers :
          (calls[w].pc = "loop" /\ calls'[w] # calls[w]) =>
              /\ UnionedBy(w) = EligibleIds(w)
              /\ calls'[w].geom = calls[w].geom \cup GeometryOf(EligibleIds(w))
              /\ UnionedBy(w) \cap AbsorbedIds(w) = {}]_vars

\* The first position of a substring
Pos(str, sub) ==
    MinOf({i \in 1..(Len(str) - Len(sub) + 1) : SubSeq(str, i, i + Len(sub) - 1) = sub})

\* The distinct non-null owner names of the titles that intersect the point
\* of worker w, read from the column use_standardised_names selects
IntersectingOwnerNames(w) ==
    {o[1] : o \in {IF use_standardised_names
                   THEN titles_gdf[i].standardised_owner_name
                   ELSE titles_gdf[i].owner_name : i \in IntersectingRows(w)} \ {None}}

LengthSum(names) ==
    LET f[k \in 0..Len(NameOrder)] ==
            IF k = 0 THEN 0
            ELSE f[k - 1] + (IF NameOrder[k] \in names THEN Len(NameOrder[k]) ELSE 0)
    IN f[Len(NameOrder)]

\* C17: a call whose point intersects a title returns the non-null owner
\* names of the intersecting titles, each once, in sorted order, joined by
\* ", ", and the number of these names.
OwnerResult ==
    \A w \in Workers :
        (calls[w].pc = "returned" /\ Seeded(w)) =>
            LET names == calls[w].result[1].owner_names
                N == IntersectingOwnerNames(w)
            IN /\ names # None
               /\ calls[w].result[1].owner_count = Some(Cardinality(N))
               /\ \A k \in 1..Len(NameOrder) :
                     Contains(names[1], NameOrder[k]) <=> NameOrder[k] \in N
               /\ Len(names[1]) =
                     LengthSum(N) + (IF N = {} THEN 0 ELSE 2 * (Cardinality(N) - 1))
               /\ \A j, k \in 1..Len(NameOrder) :
                     (j < k /\ NameOrder[j] \in N /\ NameOrder[k] \in N) =>
                         /\ Pos(names[1], NameOrder[j]) < Pos(names[1], NameOrder[k])
                         /\ Contains(names[1], ", " \o NameOrder[k])

OwnerResultWitness ==
    \E w \in Workers :
        /\ calls[w].pc = "returned"
        /\ Seeded(w)
        /\ calls[w].result[1].owner_names = Some("Beta Ltd, alpha trust")
        /\ calls[w].result[1].owner_count = Some(2)
        /\ Cardinality(IntersectingRows(w)) = 3
        /\ \E i \in IntersectingRows(w) : titles_gdf[i].owner_name = None

\* Whether the row of worker w has no geometry or intersects no title
NoMatch(w) ==
    IF input_gdf[w] = None THEN TRUE ELSE IntersectingRows(w) = {}

StartsCall(w) == calls[w].pc = "idle" /\ calls'[w] # calls[w]

\* C18 as stated: with the titles loaded, a call whose point is null or
\* intersects no title returns a null polygon, empty owner names and an
\* owner count of 0.
NoMatchReturnsEmptyAndZero ==
    [][\A w \in Workers :
          (StartsCall(w) /\ TITLES_GDF # None /\ NoMatch(w)) =>
              /\ calls'[w].pc = "returned"
              /\ calls'[w].result =
                    Some([geometry |-> None, owner_names |-> Some(""), owner_count |-> Some(0)])]_vars

\* C18 as amended: with the titles loaded, a call whose point is null or
\* intersects no title does not raise and returns a null polygon, missing
\* owner names and a missing owner count.
NoMatchOutcome ==
    [][\A w \in Workers :
          (StartsCall(w) /\ TITLES_GDF # None /\ NoMatch(w)) =>
              /\ calls'[w].pc = "returned"
              /\ calls'[w].result =
                    Some([geometry |-> None, owner_names |-> None, owner_count |-> None])]_vars

NoMatchWitness ==
    \E w \in Workers :
        /\ calls[w].pc = "returned"
        /\ calls[w].result = Some([geometry |-> None, owner_names |-> None, owner_count |-> None])
        /\ input_gdf[w] # None
        /\ sindex_query(titles_gdf, input_gdf[w][1]) # {}
        /\ IntersectingRows(w) = {}

\* C19: a call made while TITLES_GDF is not set raises, whatever the row,
\* a row without geometry included, and returns nothing.
RaisesBeforeLoad ==
    [][\A w \in Workers :
          (StartsCall(w) /\ TITLES_GDF = None) =>
              /\ calls'[w].pc = "raised"
              /\ calls'[w].result = None]_vars

RaisesBeforeLoadWitness ==
    /\ \E w \in Workers : calls[w].pc = "raised" /\ input_gdf[w] = None
    /\ \E w \in Workers : calls[w].pc = "raised" /\ input_gdf[w] # None

\* C20: no step of a call changes TITLES_GDF once it is set, and whatever
\* the interleaving of the workers, the result a call returns is the result
\* of the same call run alone on the titles layer.
ParallelIsOrderIndependent ==
    [][/\ TITLES_GDF # None => TITLES_GDF' = TITLES_GDF
       /\ \A w \in Workers :
             (calls[w].pc # "returned" /\ calls'[w].pc = "returned" /\ TITLES_GDF # None) =>
                 calls'[w].result =
                     find_matching_titles(Some(titles_gdf), input_gdf[w],
                                          use_standardised_names, distance_threshold).result]_vars

ParallelWitness ==
    /\ \A w \in Workers : calls[w].pc = "returned" /\ Seeded(w)
    /\ AbsorbedIds(1) # {}
    /\ \E w \in Workers : calls[w].result # calls[1].result

FewerThanTwoGeometriedCompletes ==
    LET Geometried == {id \in DOMAIN moe_input : moe_input[id].geom # None}
    IN /\ \A id \in Geometried :
             other_schools(moe_input, id) =
                 {moe_input[j].geom[1] : j \in Geometried \ {id}}
       /\ (filter_pc # "ready" /\ Cardinality(Geometried) < 2) =>
             /\ filter_pc = "filtered"
             /\ \A id \in DOMAIN moe_schools :
                   moe_schools[id].change_action = Some(IGNORE) =>
                       Contains(lower(moe_input[id].source_name), "proposed")

(***************************************************************************)
(* Properties of the update_facilities plugin                              *)
(***************************************************************************)
\* C23: the only step that changes the committed facilities table is the
\* commit that ends a run in which every row was applied and no row
\* reported an anomaly; a run in which a row reported one commits none of
\* the inserts, deletes and updates it made.
NoCommitAfterAnomaly ==
    [][/\ db_committed'.facilities # db_committed.facilities =>
             /\ update.pc = "loop" /\ update'.pc = "updated"
             /\ update.count = Len(temp_facilities_table)
             /\ update.flagged = {}
             /\ ~update.update_error
       /\ (update'.pc \in {"loop", "failed", "raised"} /\ update'.flagged # {}) =>
             db_committed'.facilities = update'.before]_vars

NoCommitAfterAnomalyWitness ==
    /\ update.pc = "failed"
    /\ update.flagged = {1}
    /\ update.deleted + update.attributes_changed > 0
    /\ db_committed.facilities = update.before
    /\ db_session.facilities = update.before

\* C24: when a run ends in the failed state, every row that set
\* update_error has had an error description appended to its
\* error_description, and that text is committed.
ErrorDescriptionsPersist ==
    update.pc = "failed" =>
        \A fid \in update.flagged :
            Len(db_committed.temp_facilities[fid].error_description)
                > Len(temp_facilities_table[fid].error_description)

\* C30: a run that ends without update_error has counted every row once,
\* and every row of the loop either adds one to exactly one counter or
\* sets update_error.
CountersAccountForRows ==
    [][LET CounterSum(u) ==
               u.added + u.deleted + u.geom_changed + u.attributes_changed
                   + u.geom_and_attributes_changed + u.no_change
       IN /\ update'.pc = "updated" =>
                CounterSum(update') = Len(temp_facilities_table')
          /\ (update.pc = "loop" /\ update'.count = update.count + 1) =>
                /\ CounterSum(update') - CounterSum(update) \in {0, 1}
                /\ CounterSum(update') = CounterSum(update) => update'.update_error]_vars

(***************************************************************************)
(* Properties of is_col_intlike                                            *)
(***************************************************************************)
\* C25: is_col_intlike is true exactly of a column of a numeric dtype other
\* than boolean, or of object dtype, whose every value is null or a whole
\* number; it is false of a boolean column, of any other dtype, and when a
\* value is not a number or has a fractional part.
IntlikeAsDocumented ==
    [][intlike_result' # None =>
          (intlike_result'[1] <=>
              /\ intlike_col.dtype \in {"int64", "float64", "Int64", "object"}
              /\ \A i \in DOMAIN intlike_col.values :
                    LET val == intlike_col.values[i]
                    IN \/ val.kind = "null"
                       \/ val.kind \in {"int", "float"} /\ val.tenths % 10 = 0)]_vars

(***************************************************************************)
(* Properties of update_temp_facilities                                    *)
(***************************************************************************)
\* C26: rows of an upload are committed to temp_facilities only by an
\* upload in which every feature was inserted; after an upload in which an
\* insert failed, none of its rows is committed.
AllOrNothingUpload ==
    LET UploadedFids == {input_layer[i].fid : i \in DOMAIN input_layer}
        CommittedFids ==
            {db_committed.temp_facilities[i].fid : i \in DOMAIN db_committed.temp_facilities}
    IN /\ upload.pc = "failed" => CommittedFids \cap UploadedFids = {}
       /\ (upload.pc # "ready" /\ CommittedFids \cap UploadedFids # {}) =>
             /\ upload.pc = "uploaded"
             /\ CommittedFids = UploadedFids

(***************************************************************************)
(* The order of the passes                                                 *)
(***************************************************************************)
\* C27: the change_action that compare_facilities (and compare_schools)
\* leaves on every register and external record is the one the algorithm
\* leaves that visits the external records first and then removes the
\* unvisited register records, whatever the order in which either
\* collection is iterated.
PassOrderDoesNotMatter ==
    [][LET \* The orders in which a dict can be iterated
           RECURSIVE Orders(_)
           Orders(S) ==
               IF S = {} THEN {<<>>}
               ELSE UNION {{<<x>> \o o : o \in Orders(S \ {x})} : x \in S}
           \* The first loop of compare_facilities, the register taken in a
           \* given order
           RECURSIVE facilities_pass(_, _, _, _, _)
           facilities_pass(v, facs, ext, attrs, order) ==
               IF order = <<>> THEN facs
               ELSE facilities_pass(v,
                        [facs EXCEPT ![Head(order)] =
                            visit_facility(v, facs, ext, attrs, Head(order)).rec],
                        ext, attrs, Tail(order))
           \* The second loop, the external records taken in a given order
           RECURSIVE sources_pass(_, _, _)
           sources_pass(facs, ext, order) ==
               IF order = <<>> THEN ext
               ELSE sources_pass(facs,
                        [ext EXCEPT ![Head(order)] = visit_external(facs, ext, Head(order))],
                        Tail(order))
           \* The algorithm with the passes the other way round, as
           \* compare_facilities_to_hpi orders them: every external record not
           \* flagged ignore is visited, added when the register lacks its id
           \* and compared with the register record otherwise
           RECURSIVE external_pass(_, _, _, _)
           external_pass(v, st, attrs, order) ==
               IF order = <<>> THEN st
               ELSE LET id == Head(order)
                        upd == IF v = "schools"
                               THEN update_school(st.facs[id], st.ext[id], attrs)
                               ELSE update_from_other(st.facs[id], st.ext[id], attrs)
                        nxt == IF st.ext[id].change_action = Some(IGNORE) THEN st
                               ELSE IF id \notin DOMAIN st.facs
                               THEN [st EXCEPT !.ext[id].change_action = Some(ADD)]
                               ELSE [st EXCEPT !.facs[id] = upd.rec, !.visited = @ \cup {id}]
                    IN external_pass(v, nxt, attrs, Tail(order))
           \* ... and then every register record that was not visited is
           \* removed
           RECURSIVE unvisited_pass(_, _)
           unvisited_pass(st, order) ==
               IF order = <<>> THEN st
               ELSE unvisited_pass(
                        IF Head(order) \in st.visited THEN st
                        ELSE [st EXCEPT !.facs[Head(order)].change_action = Some(REMOVE)],
                        Tail(order))
           ExternalFirst(v, facs, ext, attrs, eorder, forder) ==
               unvisited_pass(
                   external_pass(v, [facs |-> facs, ext |-> ext, visited |-> {}],
                                 attrs, eorder),
                   forder)
       IN (pc = "ready" /\ pc' = "done" /\ CoreVariant) =>
              \A forder \in Orders(DOMAIN facilities) :
                  \A eorder \in Orders(DOMAIN external_sources) :
                      LET other == ExternalFirst(variant, facilities, external_sources,
                                                 check_attrs, eorder, forder)
                          again == facilities_pass(variant, facilities, external_sources,
                                                   check_attrs, forder)
                      IN /\ ActionsOf(facilities') = ActionsOf(other.facs)
                         /\ ActionsOf(external_sources') = ActionsOf(other.ext)
                         /\ ActionsOf(facilities') = ActionsOf(again)
                         /\ ActionsOf(external_sources') =
                                ActionsOf(sources_pass(again, external_sources, eorder))]_vars

PassOrderWitness ==
    /\ pc = "done"
    /\ CoreVariant
    /\ Cardinality(DOMAIN facilities) = 2
    /\ \E r \in DOMAIN facilities :
          /\ RegAction(r) = Some(REMOVE)
          /\ r \in DOMAIN external_sources
          /\ ExtAction(r) = Some(IGNORE)
    /\ \E r \in matched : RegAction(r) \notin {None, Some(REMOVE)}

\* C28: after update_from_other on a fresh register record, geometry_change
\* is "Missing" exactly when the external geometry is missing, and then the
\* description starts with "Geom: missing"; it is "Modify" exactly when the
\* distance between the two geometries exceeds the threshold; and it is
\* null exactly when neither is the case, also when attributes changed.
GeometryChangeAgreesWithDescription ==
    (pc = "done" /\ variant = "facilities" /\ run = 1) =>
        \A r \in matched :
            LET other == external_sources[r]
                self == facilities[r]
                missing == other.geom = None
                moved == /\ other.geom # None
                         /\ distance(self.geom[1], other.geom[1]) > DISTANCE_THRESHOLD
            IN /\ self.geometry_change = Some("Missing") <=> missing
               /\ missing => StartsWith(self.change_description[1], "Geom: missing")
               /\ self.geometry_change = Some("Modify") <=> moved
               /\ self.geometry_change = None <=> (~missing /\ ~moved)

\* C29: while a call is in the loop and when it has returned, every id in
\* merged_ids is the id of a title whose geometry has been unioned into the
\* seed geometry, and the geometry (returned, once the call has returned)
\* is the union of the titles that intersect the point and of exactly the
\* titles in merged_ids.
MergedBookkeepingMatchesGeometry ==
    \A w \in Workers :
        Seeded(w) =>
            LET geometry == IF calls[w].pc = "returned"
                            THEN calls[w].result[1].geometry[1] ELSE calls[w].geom
            IN /\ calls[w].merged_ids = AbsorbedIds(w)
               /\ geometry = GeometryOf({titles_gdf[i].id : i \in IntersectingRows(w)}
                                           \cup calls[w].merged_ids)

====
